---- MODULE Spec2Model ----
(***************************************************************************)
(* Food_Order_app: the REST backend's request handlers over the persisted  *)
(* users, menu items and orders.  A request is a process: it advances from *)
(* one database call (await) to the next, and the synchronous code between *)
(* two database calls belongs to the step of the first.                    *)
(*                                                                         *)
(* Money is counted in mills (1/1000 of the currency unit), so that the    *)
(* rounding to 2 decimals is a computation and not the identity.           *)
(* Strings that the code only compares are TLA+ strings; a message built   *)
(* by interpolation is the sequence of its pieces.                         *)
(***************************************************************************)
EXTENDS Integers, Sequences, FiniteSets, TLC

\* undefined / null / absent
Null == "null"

----------------------------------------------------------------------------
(* Domains of the inputs *)

UserIds == {"u1", "u2", "a1"}
\* the user id of a token whose user is not persisted
GhostId == "u9"
MenuIds == {"m1", "m2"}
ReqIds == {"r1", "r2"}
\* orders the model lets createOrder persist
MaxOrders == 2
OrderIds == 1..MaxOrders

Roles == {"user", "admin"}

OrderStatuses == {"Order Received", "Preparing", "Out for Delivery", "Delivered", "Cancelled"}

validStatuses == <<"Order Received", "Preparing", "Out for Delivery", "Delivered", "Cancelled">>

\* status values a client may send: the 5 canonical ones, missing, empty,
\* an unknown one and a canonical one in another letter case
StatusInputs == OrderStatuses \cup {Null, "", "Pending", "delivered"}

Range(s) == {s[i] : i \in DOMAIN s}

----------------------------------------------------------------------------
(* Tokens and the authentication middleware *)

\* no Authorization header, a token jwt.verify rejects, an expired token, a
\* token of each persisted user, a token of a user that is gone, and a token
\* whose role claim is not the persisted role
NoToken == [kind |-> "none", userId |-> Null, role |-> Null]

Tokens ==
  {NoToken,
   [kind |-> "malformed", userId |-> Null, role |-> Null],
   [kind |-> "expired", userId |-> "a1", role |-> "admin"],
   [kind |-> "valid", userId |-> "u1", role |-> "user"],
   [kind |-> "valid", userId |-> "u2", role |-> "user"],
   [kind |-> "valid", userId |-> "a1", role |-> "admin"],
   [kind |-> "valid", userId |-> GhostId, role |-> "admin"],
   [kind |-> "valid", userId |-> "u2", role |-> "admin"]}

\* req.user before authenticate has set it
NoUser == [userId |-> Null, role |-> Null]

\* the reply of the error handler: {success: false, error, details?}
ErrorResponse(code, error, details) ==
  [code |-> code, error |-> error, details |-> details, data |-> << >>]

\* the reply of a handler: {success: true, data}; data is the sequence of the
\* documents it carries
Success(code, data) ==
  [code |-> code, error |-> << >>, details |-> << >>, data |-> data]

\* an error that is not an ApiError, by its name (and, for a duplicate key,
\* the indexed field)
Thrown(name, field) ==
  [name |-> name, statusCode |-> 0, message |-> << >>, details |-> << >>,
   code |-> IF name = "MongoServerError" THEN 11000 ELSE 0, field |-> field]

\* new ApiError(message, statusCode, details)
ApiError(message, statusCode, details) ==
  [name |-> "ApiError", statusCode |-> statusCode, message |-> message,
   details |-> details, code |-> 0, field |-> << >>]

\* an error handler that does not know the duplicate key error
errorHandlerWithoutDuplicateKey(err) ==
  IF err.name = "ApiError"
  THEN ErrorResponse(err.statusCode, err.message, err.details)
  ELSE ErrorResponse(500, <<"Internal Server Error">>, << >>)

\* the response of the error-handling middleware to an error passed to next
errorHandler(err) ==
  IF err.name = "ApiError"
  THEN ErrorResponse(err.statusCode, err.message, err.details)
  ELSE IF err.name = "ValidationError"
  THEN ErrorResponse(400, <<"Validation Error">>, err.details)
  ELSE IF err.name = "CastError"
  THEN ErrorResponse(400, <<"Invalid ID format">>, << >>)
  ELSE IF err.name = "MongoServerError" /\ err.code = 11000
  THEN ErrorResponse(409, <<"Duplicate entry">>, <<err.field \o <<" already exists">>>>)
  ELSE IF err.name = "JsonWebTokenError"
  THEN ErrorResponse(401, <<"Invalid token">>, << >>)
  ELSE IF err.name = "TokenExpiredError"
  THEN ErrorResponse(401, <<"Token expired">>, << >>)
  ELSE ErrorResponse(500, <<"Internal Server Error">>, << >>)

\* jwt.verify: the decoded payload, or the name of the error it throws
verifyToken(tok) ==
  CASE tok.kind = "malformed" -> [error |-> "JsonWebTokenError"]
    [] tok.kind = "expired" -> [error |-> "TokenExpiredError"]
    [] OTHER -> [error |-> Null, userId |-> tok.userId, role |-> tok.role]

\* an authentication that takes the role from the token's claim
authenticateByClaim(tok, usersDb) ==
  IF tok.kind # "valid" \/ ~usersDb[tok.userId].exists
  THEN [code |-> 401, error |-> <<"Invalid token.">>, user |-> NoUser]
  ELSE [code |-> 0, error |-> << >>, user |-> [userId |-> tok.userId, role |-> tok.role]]

\* req.user, or the 401 reply; usersDb is the persisted user collection
authenticate(tok, usersDb) ==
  IF tok.kind = "none"
  THEN [code |-> 401, error |-> <<"Access denied. No token provided.">>, user |-> NoUser]
  ELSE LET decoded == verifyToken(tok) IN
    IF decoded.error = "JsonWebTokenError"
    THEN [code |-> 401, error |-> <<"Invalid token.">>, user |-> NoUser]
    ELSE IF decoded.error = "TokenExpiredError"
    THEN [code |-> 401, error |-> <<"Token expired. Please login again.">>, user |-> NoUser]
    ELSE IF ~usersDb[decoded.userId].exists
    THEN [code |-> 401, error |-> <<"User not found.">>, user |-> NoUser]
    ELSE [code |-> 0, error |-> << >>,
          user |-> [userId |-> decoded.userId, role |-> usersDb[decoded.userId].role]]

authorizeAdmin(user) ==
  IF user = NoUser
  THEN [code |-> 401, error |-> <<"Access denied. Please authenticate.">>]
  ELSE IF user.role # "admin"
  THEN [code |-> 403, error |-> <<"Access denied. Admin privileges required.">>]
  ELSE [code |-> 0, error |-> << >>]

\* the middleware chain of a route: authenticate, then authorizeAdmin on the
\* admin-only routes
Gate(tok, usersDb, adminOnly) ==
  LET a == authenticate(tok, usersDb) IN
  IF a.code # 0 THEN a
  ELSE IF ~adminOnly THEN a
  ELSE LET z == authorizeAdmin(a.user) IN
    IF z.code # 0 THEN [code |-> z.code, error |-> z.error, user |-> a.user] ELSE a

----------------------------------------------------------------------------
(* Validation of a status update *)

RECURSIVE Join(_, _)
Join(seq, sep) ==
  IF Len(seq) = 0 THEN << >>
  ELSE IF Len(seq) = 1 THEN <<seq[1]>>
  ELSE <<seq[1], sep>> \o Join(Tail(seq), sep)

\* !status
Falsy(v) == v = Null \/ v = ""

\* a validation that only requires a status
validateOrderStatusRequiredOnly(status) ==
  LET errors ==
    IF Falsy(status)
    THEN <<[field |-> <<"status">>, message |-> <<"Status is required">>]>>
    ELSE << >>
  IN [valid |-> Len(errors) = 0, errors |-> errors]

validateOrderStatus(status) ==
  LET errors ==
    IF Falsy(status)
    THEN <<[field |-> <<"status">>, message |-> <<"Status is required">>]>>
    ELSE IF status \notin Range(validStatuses)
    THEN <<[field |-> <<"status">>,
            message |-> <<"Status must be one of: ">> \o Join(validStatuses, ", ")]>>
    ELSE << >>
  IN [valid |-> Len(errors) = 0, errors |-> errors]

\* validation.errors.map(e => `${e.field}: ${e.message}`)
Details(errors) ==
  [i \in DOMAIN errors |-> errors[i].field \o <<": ">> \o errors[i].message]

toLowerCase(status) ==
  CASE status = "Order Received" -> "order received"
    [] status = "Preparing" -> "preparing"
    [] status = "Out for Delivery" -> "out for delivery"
    [] status = "Delivered" -> "delivered"
    [] status = "Cancelled" -> "cancelled"

----------------------------------------------------------------------------
(* Validation of an order *)

\* A number of the request body is counted in mills, like the money: 2 is
\* 2000 and 1.5 is 1500.  A value of the body carries its JavaScript type.
NumScale == 10 * 10 * 10
Num(x) == [t |-> "number", v |-> x]
UndefNum == [t |-> "undefined", v |-> 0]
Str(s) == [t |-> "string", v |-> s]
UndefStr == [t |-> "undefined", v |-> << >>]
\* an object or an array where the body should carry a text
NotText == [t |-> "object", v |-> << >>]

IsNullish(x) == x.t = "undefined" \/ x.t = "null"

\* the truthiness of a value of the body
IsTruthy(x) ==
  CASE x.t \in {"undefined", "null"} -> FALSE
    [] x.t = "string" -> Len(x.v) > 0
    [] x.t = "number" -> x.v # 0
    [] x.t = "boolean" -> x.v
    [] OTHER -> TRUE

\* !x || x.trim()... throws a TypeError when x is truthy and has no trim
TrimThrows(x) == IsTruthy(x) /\ x.t # "string"

\* Number.isInteger
IsInteger(x) == x.t = "number" /\ x.v % NumScale = 0

Digits == {"0", "1", "2", "3", "4", "5", "6", "7", "8", "9"}
Whitespace == {" "}

\* String.prototype.trim on a sequence of characters
RECURSIVE TrimStart(_)
TrimStart(s) ==
  IF Len(s) > 0 /\ s[1] \in Whitespace THEN TrimStart(Tail(s)) ELSE s

RECURSIVE TrimEnd(_)
TrimEnd(s) ==
  IF Len(s) > 0 /\ s[Len(s)] \in Whitespace THEN TrimEnd(SubSeq(s, 1, Len(s) - 1)) ELSE s

trim(s) == TrimEnd(TrimStart(s))

\* a phone pattern of digits only
isValidPhoneDigitsOnly(phone) ==
  /\ Len(phone) >= 10
  /\ Len(phone) <= 20
  /\ \A i \in 1..Len(phone) : phone[i] \in Digits

\* /^[\d\s\-\+\(\)]{10,20}$/
isValidPhone(phone) ==
  /\ Len(phone) >= 10
  /\ Len(phone) <= 20
  /\ \A i \in 1..Len(phone) : phone[i] \in Digits \cup Whitespace \cup {"-", "+", "(", ")"}

Err(field, message) == <<[field |-> field, message |-> <<message>>]>>

\* the errors of the item at position index (from 0) of data.items
ItemErrors(item, index) ==
  LET Field(name) == <<"items[", ToString(index), "].", name>> IN
  (IF Falsy(item.menuItemId)
   THEN Err(Field("menuItemId"), "Menu item ID is required") ELSE << >>)
  \o (IF Falsy(item.name)
      THEN Err(Field("name"), "Item name is required") ELSE << >>)
  \o (IF IsNullish(item.price)
      THEN Err(Field("price"), "Item price is required")
      ELSE IF item.price.t = "number" /\ item.price.v < 0
      THEN Err(Field("price"), "Price cannot be negative") ELSE << >>)
  \o (IF IsNullish(item.quantity)
      THEN Err(Field("quantity"), "Quantity is required")
      ELSE IF item.quantity.t = "number" /\ item.quantity.v < 1 * NumScale
      THEN Err(Field("quantity"), "Quantity must be at least 1")
      ELSE IF ~IsInteger(item.quantity)
      THEN Err(Field("quantity"), "Quantity must be a whole number") ELSE << >>)

\* a validation that stops at the first line
ItemsErrorsFirstOnly(items, index) == ItemErrors(items[1], index)

RECURSIVE ItemsErrors(_, _)
ItemsErrors(items, index) ==
  IF Len(items) = 0 THEN << >>
  ELSE ItemErrors(items[1], index) \o ItemsErrors(Tail(items), index + 1)

DeliveryErrors(d) ==
  (IF ~IsTruthy(d.name) \/ Len(trim(d.name.v)) = 0
   THEN Err(<<"deliveryDetails.name">>, "Delivery name is required")
   ELSE IF Len(trim(d.name.v)) < 2
   THEN Err(<<"deliveryDetails.name">>, "Name must be at least 2 characters long")
   ELSE IF Len(trim(d.name.v)) > 50
   THEN Err(<<"deliveryDetails.name">>, "Name cannot exceed 50 characters") ELSE << >>)
  \o (IF ~IsTruthy(d.address) \/ Len(trim(d.address.v)) = 0
      THEN Err(<<"deliveryDetails.address">>, "Delivery address is required")
      ELSE IF Len(trim(d.address.v)) < 10
      THEN Err(<<"deliveryDetails.address">>, "Address must be at least 10 characters long")
      ELSE IF Len(trim(d.address.v)) > 200
      THEN Err(<<"deliveryDetails.address">>, "Address cannot exceed 200 characters")
      ELSE << >>)
  \o (IF ~IsTruthy(d.phone) \/ Len(trim(d.phone.v)) = 0
      THEN Err(<<"deliveryDetails.phone">>, "Phone number is required")
      ELSE IF ~isValidPhone(d.phone.v)
      THEN Err(<<"deliveryDetails.phone">>, "Please enter a valid phone number")
      ELSE << >>)

\* data.items is absent (t = "undefined") or an array; data.deliveryDetails is
\* absent or an object.  The call throws a TypeError (threw) when a line of
\* the array is null (item.menuItemId is read from it) or when a delivery
\* detail is truthy and not a string (its trim is called).
validateOrderInput(data) ==
  LET threw ==
        \/ data.items.t = "array"
             /\ \E i \in 1..Len(data.items.v) : data.items.v[i].t \in {"null", "undefined"}
        \/ data.deliveryDetails.t = "object"
             /\ \/ TrimThrows(data.deliveryDetails.name)
                \/ TrimThrows(data.deliveryDetails.address)
                \/ TrimThrows(data.deliveryDetails.phone)
      errors ==
    (IF data.items.t # "array"
     THEN Err(<<"items">>, "Order items are required")
     ELSE IF Len(data.items.v) = 0
     THEN Err(<<"items">>, "Order must contain at least one item")
     ELSE ItemsErrors(data.items.v, 0))
    \o (IF data.deliveryDetails.t # "object"
        THEN Err(<<"deliveryDetails">>, "Delivery details are required")
        ELSE DeliveryErrors(data.deliveryDetails))
  IN [valid |-> ~threw /\ Len(errors) = 0,
      errors |-> IF threw THEN << >> ELSE errors,
      threw |-> threw]

----------------------------------------------------------------------------
(* Validation of a menu item *)

\* a text is the sequence of its characters
Pizza == <<"P", "i", "z", "z", "a">>
Burgers == <<"B", "u", "r", "g", "e", "r", "s">>
Pasta == <<"P", "a", "s", "t", "a">>
Sides == <<"S", "i", "d", "e", "s">>
Drinks == <<"D", "r", "i", "n", "k", "s">>
Desserts == <<"D", "e", "s", "s", "e", "r", "t", "s">>
Other == <<"O", "t", "h", "e", "r">>

validCategories == <<Pizza, Burgers, Pasta, Sides, Drinks, Desserts>>

\* the enum of MenuItemSchema.category
SchemaCategories == <<Pizza, Burgers, Pasta, Sides, Desserts, Drinks, Other>>

\* !s || s.trim().length === 0
Blank(s) == ~IsTruthy(s) \/ Len(trim(s.v)) = 0

\* a test of the decimals that every price passes
AtMost2DecimalsAlways(x) == TRUE

\* /^\d+(\.\d{1,2})?$/.test(price.toString()) for a number that is not negative
AtMost2Decimals(x) == x.v % 10 = 0

\* The call throws a TypeError (threw) when the name, the description, the
\* image or the category is truthy and not a string.
validateMenuItemInput(data) ==
  LET threw ==
        \/ TrimThrows(data.name)
        \/ TrimThrows(data.description)
        \/ TrimThrows(data.image)
        \/ TrimThrows(data.category)
      errors ==
    (IF Blank(data.name)
     THEN Err(<<"name">>, "Item name is required")
     ELSE IF Len(trim(data.name.v)) < 2
     THEN Err(<<"name">>, "Name must be at least 2 characters long")
     ELSE IF Len(trim(data.name.v)) > 100
     THEN Err(<<"name">>, "Name cannot exceed 100 characters") ELSE << >>)
    \o (IF Blank(data.description)
        THEN Err(<<"description">>, "Description is required")
        ELSE IF Len(trim(data.description.v)) < 10
        THEN Err(<<"description">>, "Description must be at least 10 characters long")
        ELSE IF Len(trim(data.description.v)) > 500
        THEN Err(<<"description">>, "Description cannot exceed 500 characters") ELSE << >>)
    \o (IF IsNullish(data.price)
        THEN Err(<<"price">>, "Price is required")
        ELSE IF data.price.t # "number"
        THEN Err(<<"price">>, "Price must be a number")
        ELSE IF data.price.v < 0
        THEN Err(<<"price">>, "Price cannot be negative")
        ELSE IF ~AtMost2Decimals(data.price)
        THEN Err(<<"price">>, "Price must have at most 2 decimal places") ELSE << >>)
    \o (IF Blank(data.image)
        THEN Err(<<"image">>, "Image URL is required") ELSE << >>)
    \o (IF Blank(data.category)
        THEN Err(<<"category">>, "Category is required")
        ELSE IF data.category.v \notin Range(validCategories)
        THEN <<[field |-> <<"category">>,
                message |-> <<"Category must be one of: ">>
                            \o Join(validCategories, ", ")]>>
        ELSE << >>)
  IN [valid |-> ~threw /\ Len(errors) = 0,
      errors |-> IF threw THEN << >> ELSE errors,
      threw |-> threw]

----------------------------------------------------------------------------
(* Validation of a registration and of a login *)

Lowers == <<"a", "b", "c", "d", "e", "f", "g", "h", "i", "j", "k", "l", "m",
            "n", "o", "p", "q", "r", "s", "t", "u", "v", "w", "x", "y", "z">>
Uppers == <<"A", "B", "C", "D", "E", "F", "G", "H", "I", "J", "K", "L", "M",
            "N", "O", "P", "Q", "R", "S", "T", "U", "V", "W", "X", "Y", "Z">>

\* String.prototype.toLowerCase on a sequence of characters
LowerCase(s) ==
  [i \in 1..Len(s) |->
     IF \E k \in 1..Len(Uppers) : Uppers[k] = s[i]
     THEN Lowers[CHOOSE k \in 1..Len(Uppers) : Uppers[k] = s[i]]
     ELSE s[i]]

\* \w
WordChars == Range(Lowers) \cup Range(Uppers) \cup Digits \cup {"_"}

\* ^\w+([.-]?\w+)*$
WordRun(s) ==
  /\ Len(s) > 0
  /\ s[1] \in WordChars
  /\ s[Len(s)] \in WordChars
  /\ \A i \in 1..Len(s) : s[i] \in WordChars \cup {".", "-"}
  /\ \A i \in 1..(Len(s) - 1) : s[i] \in WordChars \/ s[i + 1] \in WordChars

\* ^(\.\w{2,3})+$
RECURSIVE TldGroups(_)
TldGroups(s) ==
  /\ Len(s) >= 3
  /\ s[1] = "."
  /\ \E n \in {2, 3} :
       /\ Len(s) >= n + 1
       /\ \A i \in 2..(n + 1) : s[i] \in WordChars
       /\ (Len(s) = n + 1 \/ TldGroups(SubSeq(s, n + 2, Len(s))))

\* /^\w+([.-]?\w+)*@\w+([.-]?\w+)*(\.\w{2,3})+$/
isValidEmail(email) ==
  \E at \in 1..Len(email) :
    /\ email[at] = "@"
    /\ WordRun(SubSeq(email, 1, at - 1))
    /\ \E k \in (at + 1)..Len(email) :
         /\ WordRun(SubSeq(email, at + 1, k))
         /\ TldGroups(SubSeq(email, k + 1, Len(email)))

\* password.length >= 6
isValidPassword(password) == Len(password) >= 6

UserRole == <<"u", "s", "e", "r">>
AdminRole == <<"a", "d", "m", "i", "n">>

\* a rule that only requires a code of the admin
AdminCodeErrorsRequiredOnly(data, adminSecretCode) ==
  IF data.role.t = "string" /\ data.role.v = AdminRole /\ Blank(data.adminSecretCode)
  THEN Err(<<"adminSecretCode">>, "Admin secret code is required for admin registration")
  ELSE << >>

\* if (data.role === 'admin') { ... }: the rule on the admin secret code
AdminCodeErrors(data, adminSecretCode) ==
  IF data.role.t = "string" /\ data.role.v = AdminRole
  THEN IF Blank(data.adminSecretCode)
       THEN Err(<<"adminSecretCode">>,
                "Admin secret code is required for admin registration")
       ELSE IF data.adminSecretCode.v # adminSecretCode
       THEN Err(<<"adminSecretCode">>, "Invalid admin secret code")
       ELSE << >>
  ELSE << >>

\* The call throws a TypeError (threw) when the name or the email is truthy
\* and not a string, or when the role is admin and the code is.
validateRegisterInput(data, adminSecretCode) ==
  LET isAdmin == data.role.t = "string" /\ data.role.v = AdminRole
      threw ==
        \/ TrimThrows(data.name)
        \/ TrimThrows(data.email)
        \/ isAdmin /\ TrimThrows(data.adminSecretCode)
      errors ==
        (IF Blank(data.name)
         THEN Err(<<"name">>, "Name is required")
         ELSE IF Len(trim(data.name.v)) < 2
         THEN Err(<<"name">>, "Name must be at least 2 characters long")
         ELSE IF Len(trim(data.name.v)) > 50
         THEN Err(<<"name">>, "Name cannot exceed 50 characters") ELSE << >>)
        \o (IF Blank(data.email)
            THEN Err(<<"email">>, "Email is required")
            ELSE IF ~isValidEmail(data.email.v)
            THEN Err(<<"email">>, "Please enter a valid email address") ELSE << >>)
        \o (IF ~IsTruthy(data.password)
            THEN Err(<<"password">>, "Password is required")
            ELSE IF ~(data.password.t = "string" /\ isValidPassword(data.password.v))
            THEN Err(<<"password">>, "Password must be at least 6 characters long")
            ELSE << >>)
        \o (IF ~IsTruthy(data.role)
            THEN Err(<<"role">>, "Role is required")
            ELSE IF ~(data.role.t = "string" /\ data.role.v \in {UserRole, AdminRole})
            THEN Err(<<"role">>, "Role must be either user or admin") ELSE << >>)
        \o AdminCodeErrors(data, adminSecretCode)
  IN [valid |-> ~threw /\ Len(errors) = 0,
      errors |-> IF threw THEN << >> ELSE errors,
      threw |-> threw]

\* The call throws a TypeError (threw) when the email is truthy and not a
\* string.
validateLoginInput(data) ==
  LET threw == TrimThrows(data.email)
      errors ==
        (IF Blank(data.email)
         THEN Err(<<"email">>, "Email is required")
         ELSE IF ~isValidEmail(data.email.v)
         THEN Err(<<"email">>, "Please enter a valid email address") ELSE << >>)
        \o (IF ~IsTruthy(data.password)
            THEN Err(<<"password">>, "Password is required") ELSE << >>)
  IN [valid |-> ~threw /\ Len(errors) = 0,
      errors |-> IF threw THEN << >> ELSE errors,
      threw |-> threw]

----------------------------------------------------------------------------
(* State *)

VARIABLES
  users,    \* persisted users: id -> [exists, role, email]
  menu,     \* persisted menu items: id -> [exists, name, price, available]
  orders,   \* persisted orders, in the order of their creation; the id of an
            \* order is its position
  reqs,     \* the request of each connection: its handler's local state
            \* and, once it is answered, the reply
  localStorage,  \* the browser's storage: the items token, user and
                 \* food-delivery-cart
  auth,     \* the state of the AuthProvider and the call it is awaiting
  cart      \* the state of the CartProvider and its pending effects

vars == <<users, menu, orders, reqs, localStorage, auth, cart>>

\* the browser's side, which no handler of the server touches
clientVars == <<localStorage, auth, cart>>

NoDetails == [name |-> << >>, address |-> << >>, phone |-> << >>]

\* no document (findById resolved to null)
NoDoc == [id |-> 0, userId |-> Null, items |-> << >>, totalAmount |-> 0,
          deliveryDetails |-> NoDetails, status |-> Null]

\* a request body without items and without deliveryDetails, and without
\* the fields status, userId and totalAmount that a client may add
NoBody == [items |-> [t |-> "undefined", v |-> << >>],
           deliveryDetails |-> [t |-> "undefined", name |-> UndefStr,
                                address |-> UndefStr, phone |-> UndefStr],
           status |-> Null, userId |-> Null, totalAmount |-> UndefNum]

\* a menu item that is not there (findById resolved to null); used marks
\* an id the collection has given out, which it never gives out again
NoItem == [exists |-> FALSE, used |-> FALSE, name |-> << >>, description |-> << >>, price |-> 0,
           image |-> << >>, category |-> << >>, available |-> FALSE]

UndefBool == [t |-> "undefined", v |-> FALSE]
Bool(b) == [t |-> "boolean", v |-> b]

\* a menu request body without fields
NoMenuBody == [name |-> UndefStr, description |-> UndefStr, price |-> UndefNum,
               image |-> UndefStr, category |-> UndefStr, available |-> UndefBool]

\* The local state of a handler: the operation, the await it is at, req.user,
\* req.params.id (of an order or of a menu item), req.body.status (or the
\* ?status= filter), the rest of req.body, the status it read from the
\* order, the document it loaded or prepared, the persisted status its save
\* replaced, and the reply (pc = "done").
NoRes == ErrorResponse(0, << >>, << >>)

\* a registration body without fields
NoRegBody == [name |-> UndefStr, email |-> UndefStr, password |-> UndefStr,
              role |-> UndefStr, adminSecretCode |-> UndefStr]

Idle == [op |-> "none", pc |-> "idle", user |-> NoUser, id |-> 0, menuId |-> Null,
         status |-> Null, body |-> NoBody, menuBody |-> NoMenuBody,
         regBody |-> NoRegBody, read |-> Null,
         doc |-> NoDoc, item |-> NoItem, prev |-> Null, res |-> NoRes]

Request(op, user) == [Idle EXCEPT !.op = op, !.pc = "begin", !.user = user]

\* a connection is free for the next request when it carries none or when
\* its request has been answered
Free(r) == reqs[r].pc \in {"idle", "done"}

\* Order.findById
FindOrder(id) == IF id \in 1..Len(orders) THEN orders[id] ELSE NoDoc

----------------------------------------------------------------------------
(* Order totals *)

\* sum + item.price * item.quantity over the items of a document, in mills
\* (a persisted quantity is a whole number, so the division is exact)
RECURSIVE SumItems(_)
SumItems(items) ==
  IF Len(items) = 0 THEN 0
  ELSE (items[1].price * items[1].quantity) \div NumScale + SumItems(Tail(items))

\* Math.round(x * 100) / 100 on an amount in mills: to the nearest 10 mills,
\* a half going up
Round2(x) == ((x + 5) \div 10) * 10

\* a hook that totals the first line only
PreSaveFirstItemOnly(doc) ==
  [doc EXCEPT !.totalAmount = Round2(SumItems(SubSeq(doc.items, 1, 1)))]

\* OrderSchema.pre('save')
PreSave(doc) == [doc EXCEPT !.totalAmount = Round2(SumItems(doc.items))]

\* a save that leaves a delivered or cancelled order as it is
SaveOrderUnlessTerminal(doc) ==
  IF orders[doc.id].status \in {"Delivered", "Cancelled"} THEN orders
  ELSE [orders EXCEPT ![doc.id] = [@ EXCEPT !.status = doc.status]]

\* order.save() of a loaded document: the hook runs, then the paths the
\* handler and the hook assigned are written to the persisted document
SaveOrder(doc) ==
  LET d == PreSave(doc) IN
  [orders EXCEPT ![doc.id] = [@ EXCEPT !.status = d.status, !.totalAmount = d.totalAmount]]

----------------------------------------------------------------------------
(* Steps shared by the handlers *)

\* the handler ends: the reply is sent, and the connection keeps who asked,
\* for what, the status the handler read and replaced, and the reply
Finish(r, req, res) ==
  /\ reqs' = [reqs EXCEPT ![r] = [Idle EXCEPT !.pc = "done", !.op = req.op, !.user = req.user,
                                          !.status = req.status, !.read = req.read,
                                          !.prev = req.prev, !.res = res]]
  /\ UNCHANGED clientVars

\* the handler goes on to its next database call
Goto(r, req, pc) ==
  /\ reqs' = [reqs EXCEPT ![r] = [req EXCEPT !.pc = pc]]
  /\ UNCHANGED clientVars

At(r, op, pc) == reqs[r].op = op /\ reqs[r].pc = pc

----------------------------------------------------------------------------
(* PUT /api/orders/:id/status: authenticate, authorizeAdmin, updateOrderStatus *)

\* variants of the lock: one that forgets the cancelled orders, one that
\* also locks an order that is out for delivery
IsLockedDeliveredOnly(status) == status = "Delivered"

IsLockedOnceOut(status) ==
  status = "Out for Delivery" \/ status = "Delivered" \/ status = "Cancelled"

\* order.status === 'Delivered' || order.status === 'Cancelled'
IsLocked(status) == status = "Delivered" \/ status = "Cancelled"

updateOrderStatus_begin(r, tok, id, status) ==
  /\ Free(r)
  /\ LET g == Gate(tok, users, TRUE)
         req == [Request("updateOrderStatus", g.user) EXCEPT !.id = id, !.status = status]
         validation == validateOrderStatus(status)
     IN IF g.code # 0
        THEN Finish(r, req, ErrorResponse(g.code, g.error, << >>))
        ELSE IF ~validation.valid
        THEN Finish(r, req, ErrorResponse(400, <<"Validation failed">>,
                                          Details(validation.errors)))
        ELSE Goto(r, req, "find")
  /\ UNCHANGED <<users, menu, orders>>

updateOrderStatus_find(r) ==
  /\ At(r, "updateOrderStatus", "find")
  /\ LET req == reqs[r]
         order == FindOrder(req.id)
     IN IF order = NoDoc
        THEN Finish(r, req, ErrorResponse(404, <<"Order not found">>, << >>))
        ELSE IF IsLocked(order.status)
        THEN Finish(r, [req EXCEPT !.read = order.status],
                    ErrorResponse(400, <<"Cannot update status of ",
                                         toLowerCase(order.status), " orders">>, << >>))
        ELSE Goto(r, [req EXCEPT !.read = order.status,
                                 !.doc = [order EXCEPT !.status = req.status]], "save")
  /\ UNCHANGED <<users, menu, orders>>

updateOrderStatus_save(r) ==
  /\ At(r, "updateOrderStatus", "save")
  /\ orders' = SaveOrder(reqs[r].doc)
  /\ Finish(r, [reqs[r] EXCEPT !.prev = orders[reqs[r].id].status],
            Success(200, <<PreSave(reqs[r].doc)>>))
  /\ UNCHANGED <<users, menu>>

----------------------------------------------------------------------------
(* PUT /api/orders/:id/cancel: authenticate, cancelOrder *)

\* an ownership check that lets an admin through
NotOwnerNorAdmin(order, user) == order.userId # user.userId /\ user.role # "admin"

\* order.userId.toString() !== req.user.userId
NotOwner(order, user) == order.userId # user.userId

\* status checks that take a second cancellation for a success
CancelErrorIdempotent(status) ==
  IF status = "Delivered" THEN <<"Cannot cancel delivered orders">> ELSE << >>

\* the status checks of cancelOrder: the message of the error, or none
CancelError(status) ==
  IF status = "Delivered" THEN <<"Cannot cancel delivered orders">>
  ELSE IF status = "Cancelled" THEN <<"Order is already cancelled">>
  ELSE << >>

cancelOrder_begin(r, tok, id) ==
  /\ Free(r)
  /\ LET g == Gate(tok, users, FALSE)
         req == [Request("cancelOrder", g.user) EXCEPT !.id = id]
     IN IF g.code # 0
        THEN Finish(r, req, ErrorResponse(g.code, g.error, << >>))
        ELSE IF req.user = NoUser
        THEN Finish(r, req, ErrorResponse(401, <<"Not authenticated">>, << >>))
        ELSE Goto(r, req, "find")
  /\ UNCHANGED <<users, menu, orders>>

cancelOrder_find(r) ==
  /\ At(r, "cancelOrder", "find")
  /\ LET req == reqs[r]
         order == FindOrder(req.id)
         seen == [req EXCEPT !.read = order.status]
     IN IF order = NoDoc
        THEN Finish(r, req, ErrorResponse(404, <<"Order not found">>, << >>))
        ELSE IF NotOwner(order, req.user)
        THEN Finish(r, seen, ErrorResponse(403, <<"Access denied">>, << >>))
        ELSE IF CancelError(order.status) # << >>
        THEN Finish(r, seen, ErrorResponse(400, CancelError(order.status), << >>))
        ELSE Goto(r, [seen EXCEPT !.doc = [order EXCEPT !.status = "Cancelled"]], "save")
  /\ UNCHANGED <<users, menu, orders>>

cancelOrder_save(r) ==
  /\ At(r, "cancelOrder", "save")
  /\ orders' = SaveOrder(reqs[r].doc)
  /\ Finish(r, [reqs[r] EXCEPT !.prev = orders[reqs[r].id].status],
            Success(200, <<PreSave(reqs[r].doc)>>))
  /\ UNCHANGED <<users, menu>>

----------------------------------------------------------------------------
(* POST /api/orders: authenticate, createOrder *)

\* the order in which the collection returns its menu items
MenuSeq == <<"m1", "m2">>

ItemIds(items) == {items[i].menuItemId : i \in 1..Len(items)}

\* MenuItem.find({ _id: { $in: menuItemIds } }): the ids of the documents found
FindMenuItems(ids) ==
  LET Found(m) == m \in ids /\ menu[m].exists IN SelectSeq(MenuSeq, Found)

\* an enrichment that keeps the price the client sent
EnrichItemTrustingClient(item, menuItems) ==
  [menuItemId |-> item.menuItemId,
   name |-> IF item.menuItemId \in Range(menuItems) THEN menu[item.menuItemId].name ELSE << >>,
   price |-> item.price.v,
   quantity |-> item.quantity.v]

\* menuItems.find(mi => mi._id.toString() === item.menuItemId), then the
\* enriched line
EnrichItem(item, menuItems) ==
  LET found == item.menuItemId \in Range(menuItems) IN
  [menuItemId |-> item.menuItemId,
   name |-> IF found THEN menu[item.menuItemId].name ELSE << >>,
   price |-> IF found THEN menu[item.menuItemId].price ELSE 0,
   quantity |-> item.quantity.v]

EnrichItems(items, menuItems) == [i \in 1..Len(items) |-> EnrichItem(items[i], menuItems)]

\* sum + item.price * item.quantity over the enriched lines, in mills
RECURSIVE TotalAmount(_)
TotalAmount(items) ==
  IF Len(items) = 0 THEN 0
  ELSE (items[1].price * items[1].quantity) \div NumScale + TotalAmount(Tail(items))

TrimDetails(d) ==
  [name |-> trim(d.name.v), address |-> trim(d.address.v), phone |-> trim(d.phone.v)]

createOrder_begin(r, tok, body) ==
  /\ Free(r)
  /\ LET g == Gate(tok, users, FALSE)
         req == [Request("createOrder", g.user) EXCEPT !.body = body]
         validation == validateOrderInput(body)
     IN IF g.code # 0
        THEN Finish(r, req, ErrorResponse(g.code, g.error, << >>))
        ELSE IF req.user = NoUser
        THEN Finish(r, req, ErrorResponse(401, <<"Not authenticated">>, << >>))
        ELSE IF validation.threw
        THEN Finish(r, req, errorHandler(Thrown("TypeError", << >>)))
        ELSE IF ~validation.valid
        THEN Finish(r, req, ErrorResponse(400, <<"Validation failed">>,
                                          Details(validation.errors)))
        ELSE Goto(r, req, "find")
  /\ UNCHANGED <<users, menu, orders>>

\* an order that takes the owner, the status and the total the body carries
NewOrderFromBody(req, enrichedItems, roundedTotalAmount) ==
  [id |-> 0,
   userId |-> IF req.body.userId # Null THEN req.body.userId ELSE req.user.userId,
   items |-> enrichedItems,
   totalAmount |-> IF req.body.totalAmount.t = "number" THEN req.body.totalAmount.v
                   ELSE roundedTotalAmount,
   deliveryDetails |-> TrimDetails(req.body.deliveryDetails),
   status |-> IF req.body.status # Null THEN req.body.status ELSE "Order Received"]

\* the document handed to Order.create
NewOrder(req, enrichedItems, roundedTotalAmount) ==
  [id |-> 0, userId |-> req.user.userId, items |-> enrichedItems,
   totalAmount |-> roundedTotalAmount,
   deliveryDetails |-> TrimDetails(req.body.deliveryDetails),
   status |-> "Order Received"]

\* a filter that finds every item available
IsUnavailableNever(m) == FALSE

\* item => !item.available
IsUnavailable(m) == ~menu[m].available

createOrder_find(r) ==
  /\ At(r, "createOrder", "find")
  /\ LET req == reqs[r]
         items == req.body.items.v
         menuItems == FindMenuItems(ItemIds(items))
         unavailableItems == SelectSeq(menuItems, IsUnavailable)
         enrichedItems == EnrichItems(items, menuItems)
         roundedTotalAmount == Round2(TotalAmount(enrichedItems))
     IN IF Len(menuItems) # Len(items)
        THEN Finish(r, req, ErrorResponse(400, <<"One or more menu items not found">>, << >>))
        ELSE IF Len(unavailableItems) > 0
        THEN Finish(r, req,
                    ErrorResponse(400, <<"Some items are not available: ">>
                      \o Join([i \in 1..Len(unavailableItems) |-> menu[unavailableItems[i]].name],
                              ", "), << >>))
        ELSE IF roundedTotalAmount <= 0
        THEN Finish(r, req, ErrorResponse(400, <<"Order total must be greater than 0">>, << >>))
        ELSE Goto(r, [req EXCEPT !.doc = NewOrder(req, enrichedItems, roundedTotalAmount)],
                  "create")
  /\ UNCHANGED <<users, menu, orders>>

\* Order.create: the schema's validators, the pre-save hook, the insert
OrderSchemaValid(doc) ==
  /\ doc.userId # Null
  /\ Len(doc.items) > 0
  /\ \A i \in 1..Len(doc.items) :
       /\ Len(doc.items[i].name) > 0
       /\ doc.items[i].price >= 0
       /\ doc.items[i].quantity >= 1 * NumScale
       /\ doc.items[i].quantity % NumScale = 0
  /\ doc.totalAmount > 0
  /\ Len(doc.deliveryDetails.name) >= 2 /\ Len(doc.deliveryDetails.name) <= 50
  /\ Len(doc.deliveryDetails.address) >= 10 /\ Len(doc.deliveryDetails.address) <= 200
  /\ isValidPhone(doc.deliveryDetails.phone)
  /\ doc.status \in OrderStatuses

createOrder_create(r) ==
  /\ At(r, "createOrder", "create")
  /\ Len(orders) < MaxOrders
  /\ LET req == reqs[r]
         order == [PreSave(req.doc) EXCEPT !.id = Len(orders) + 1]
     IN IF ~OrderSchemaValid(req.doc)
        THEN /\ Finish(r, req, ErrorResponse(400, <<"Validation Error">>, << >>))
             /\ UNCHANGED orders
        ELSE /\ orders' = Append(orders, order)
             /\ Goto(r, [req EXCEPT !.id = order.id, !.doc = order], "populate")
  /\ UNCHANGED <<users, menu>>

\* Order.findById(order._id).populate('userId', 'name email')
createOrder_populate(r) ==
  /\ At(r, "createOrder", "populate")
  /\ Finish(r, reqs[r], Success(201, <<FindOrder(reqs[r].id)>>))
  /\ UNCHANGED <<users, menu, orders>>

----------------------------------------------------------------------------
(* GET /api/orders/:id, GET /api/orders, GET /api/orders/all *)

Reverse(seq) == [i \in 1..Len(seq) |-> seq[Len(seq) + 1 - i]]

\* an access check that refuses nobody
AccessDeniedToNobody(order, user) == FALSE

\* order.userId.toString() !== req.user.userId && req.user.role !== 'admin'
AccessDenied(order, user) == order.userId # user.userId /\ user.role # "admin"

getOrderById_begin(r, tok, id) ==
  /\ Free(r)
  /\ LET g == Gate(tok, users, FALSE)
         req == [Request("getOrderById", g.user) EXCEPT !.id = id]
     IN IF g.code # 0
        THEN Finish(r, req, ErrorResponse(g.code, g.error, << >>))
        ELSE IF req.user = NoUser
        THEN Finish(r, req, ErrorResponse(401, <<"Not authenticated">>, << >>))
        ELSE Goto(r, req, "find")
  /\ UNCHANGED <<users, menu, orders>>

getOrderById_find(r) ==
  /\ At(r, "getOrderById", "find")
  /\ LET req == reqs[r]
         order == FindOrder(req.id)
     IN IF order = NoDoc
        THEN Finish(r, req, ErrorResponse(404, <<"Order not found">>, << >>))
        ELSE IF AccessDenied(order, req.user)
        THEN Finish(r, req, ErrorResponse(403, <<"Access denied">>, << >>))
        ELSE Finish(r, req, Success(200, <<order>>))
  /\ UNCHANGED <<users, menu, orders>>

getUserOrders_begin(r, tok) ==
  /\ Free(r)
  /\ LET g == Gate(tok, users, FALSE)
         req == Request("getUserOrders", g.user)
     IN IF g.code # 0
        THEN Finish(r, req, ErrorResponse(g.code, g.error, << >>))
        ELSE IF req.user = NoUser
        THEN Finish(r, req, ErrorResponse(401, <<"Not authenticated">>, << >>))
        ELSE Goto(r, req, "find")
  /\ UNCHANGED <<users, menu, orders>>

\* Order.find({ userId }).sort({ createdAt: -1 })
getUserOrders_find(r) ==
  /\ At(r, "getUserOrders", "find")
  /\ LET req == reqs[r]
         Mine(o) == o.userId = req.user.userId
     IN Finish(r, req, Success(200, Reverse(SelectSeq(orders, Mine))))
  /\ UNCHANGED <<users, menu, orders>>

\* status is the ?status= filter of the query (Null: no filter)
getAllOrders_begin(r, tok, status) ==
  /\ Free(r)
  /\ LET g == Gate(tok, users, TRUE)
         req == [Request("getAllOrders", g.user) EXCEPT !.status = status]
     IN IF g.code # 0
        THEN Finish(r, req, ErrorResponse(g.code, g.error, << >>))
        ELSE Goto(r, req, "find")
  /\ UNCHANGED <<users, menu, orders>>

getAllOrders_find(r) ==
  /\ At(r, "getAllOrders", "find")
  /\ LET req == reqs[r]
         Match(o) == Falsy(req.status) \/ o.status = req.status
     IN Finish(r, req, Success(200, Reverse(SelectSeq(orders, Match))))
  /\ UNCHANGED <<users, menu, orders>>

----------------------------------------------------------------------------
(* POST /api/menu, PUT /api/menu/:id, DELETE /api/menu/:id:                *)
(* authenticate, authorizeAdmin, then the menu controller                  *)

\* MenuItem.findById
FindMenuItem(id) == IF id \in MenuIds /\ menu[id].exists THEN menu[id] ELSE NoItem

\* the validators of MenuItemSchema on the paths of a document
\* price: /^(\d{1,8}(\.\d{1,2})?)$/ on a number that is not negative
SchemaPriceValid(price) ==
  price >= 0 /\ price % 10 = 0 /\ price \div NumScale < 100000000

MenuSchemaValid(item) ==
  /\ Len(item.name) >= 2 /\ Len(item.name) <= 100
  /\ Len(item.description) >= 10 /\ Len(item.description) <= 500
  /\ SchemaPriceValid(item.price)
  /\ Len(item.image) > 0
  /\ item.category \in Range(SchemaCategories)

\* truthiness of a text of the body
Truthy(s) == s.t = "string" /\ Len(s.v) > 0

\* the id the collection gives the next inserted menu item
FreeMenuIds == LET Unused(m) == ~menu[m].used IN SelectSeq(MenuSeq, Unused)

createMenuItem_begin(r, tok, body) ==
  /\ Free(r)
  /\ LET g == Gate(tok, users, TRUE)
         req == [Request("createMenuItem", g.user) EXCEPT !.menuBody = body]
         validation == validateMenuItemInput(body)
     IN IF g.code # 0
        THEN Finish(r, req, ErrorResponse(g.code, g.error, << >>))
        ELSE IF validation.threw
        THEN Finish(r, req, errorHandler(Thrown("TypeError", << >>)))
        ELSE IF ~validation.valid
        THEN Finish(r, req, ErrorResponse(400, <<"Validation failed">>,
                                          Details(validation.errors)))
        ELSE Goto(r, [req EXCEPT !.item =
                        [exists |-> TRUE, used |-> TRUE, name |-> trim(body.name.v),
                         description |-> trim(body.description.v),
                         price |-> body.price.v, image |-> trim(body.image.v),
                         category |-> body.category.v,
                         available |-> IF body.available.t # "undefined"
                                       THEN body.available.v ELSE TRUE]], "create")
  /\ UNCHANGED <<users, menu, orders>>

createMenuItem_create(r) ==
  /\ At(r, "createMenuItem", "create")
  /\ Len(FreeMenuIds) > 0
  /\ LET req == reqs[r]
         id == FreeMenuIds[1]
     IN IF ~MenuSchemaValid(req.item)
        THEN /\ Finish(r, req, ErrorResponse(400, <<"Validation Error">>, << >>))
             /\ UNCHANGED menu
        ELSE /\ menu' = [menu EXCEPT ![id] = req.item]
             /\ Finish(r, [req EXCEPT !.menuId = id], Success(201, <<req.item>>))
  /\ UNCHANGED <<users, orders>>

\* name || existingItem.name
OrElse(s, existing) == IF Truthy(s) THEN s ELSE Str(existing)

updateMenuItem_begin(r, tok, id, body) ==
  /\ Free(r)
  /\ LET g == Gate(tok, users, TRUE)
         req == [Request("updateMenuItem", g.user) EXCEPT !.menuId = id, !.menuBody = body]
     IN IF g.code # 0
        THEN Finish(r, req, ErrorResponse(g.code, g.error, << >>))
        ELSE Goto(r, req, "find")
  /\ UNCHANGED <<users, menu, orders>>

updateMenuItem_find(r) ==
  /\ At(r, "updateMenuItem", "find")
  /\ LET req == reqs[r]
         body == req.menuBody
         existingItem == FindMenuItem(req.menuId)
         validation == validateMenuItemInput(
           [name |-> OrElse(body.name, existingItem.name),
            description |-> OrElse(body.description, existingItem.description),
            price |-> IF body.price.t # "undefined" THEN body.price
                      ELSE Num(existingItem.price),
            image |-> OrElse(body.image, existingItem.image),
            category |-> OrElse(body.category, existingItem.category),
            available |-> IF body.available.t # "undefined" THEN body.available
                          ELSE Bool(existingItem.available)])
     IN IF ~existingItem.exists
        THEN Finish(r, req, ErrorResponse(404, <<"Menu item not found">>, << >>))
        ELSE IF (Truthy(body.name) \/ Truthy(body.description)
                 \/ body.price.t # "undefined" \/ Truthy(body.image)
                 \/ Truthy(body.category)) /\ ~validation.valid
        THEN Finish(r, req, ErrorResponse(400, <<"Validation failed">>,
                                          Details(validation.errors)))
        ELSE Goto(r, req, "update")
  /\ UNCHANGED <<users, menu, orders>>

\* the update document of findByIdAndUpdate applied to a stored item
ApplyUpdate(item, body) ==
  [item EXCEPT
     !.name = IF Truthy(body.name) THEN trim(body.name.v) ELSE @,
     !.description = IF Truthy(body.description) THEN trim(body.description.v) ELSE @,
     !.price = IF body.price.t # "undefined" THEN body.price.v ELSE @,
     !.image = IF Truthy(body.image) THEN trim(body.image.v) ELSE @,
     !.category = IF Truthy(body.category) THEN body.category.v ELSE @,
     !.available = IF body.available.t # "undefined" THEN body.available.v ELSE @]

\* findByIdAndUpdate(id, update, { new: true, runValidators: true }): null
\* when the item is gone
updateMenuItem_update(r) ==
  /\ At(r, "updateMenuItem", "update")
  /\ LET req == reqs[r]
         stored == FindMenuItem(req.menuId)
         updatedItem == ApplyUpdate(stored, req.menuBody)
     IN IF ~stored.exists
        THEN /\ Finish(r, req, Success(200, << >>))
             /\ UNCHANGED menu
        ELSE IF ~MenuSchemaValid(updatedItem)
        THEN /\ Finish(r, req, ErrorResponse(400, <<"Validation Error">>, << >>))
             /\ UNCHANGED menu
        ELSE /\ menu' = [menu EXCEPT ![req.menuId] = updatedItem]
             /\ Finish(r, req, Success(200, <<updatedItem>>))
  /\ UNCHANGED <<users, orders>>

deleteMenuItem_begin(r, tok, id) ==
  /\ Free(r)
  /\ LET g == Gate(tok, users, TRUE)
         req == [Request("deleteMenuItem", g.user) EXCEPT !.menuId = id]
     IN IF g.code # 0
        THEN Finish(r, req, ErrorResponse(g.code, g.error, << >>))
        ELSE Goto(r, req, "find")
  /\ UNCHANGED <<users, menu, orders>>

deleteMenuItem_find(r) ==
  /\ At(r, "deleteMenuItem", "find")
  /\ LET req == reqs[r]
         menuItem == FindMenuItem(req.menuId)
     IN IF ~menuItem.exists
        THEN Finish(r, req, ErrorResponse(404, <<"Menu item not found">>, << >>))
        ELSE Goto(r, req, "delete")
  /\ UNCHANGED <<users, menu, orders>>

\* a deletion that also cancels the orders with a line of the deleted item
deleteMenuItem_deleteCascading(r) ==
  /\ At(r, "deleteMenuItem", "delete")
  /\ menu' = [menu EXCEPT ![reqs[r].menuId] = [NoItem EXCEPT !.used = TRUE]]
  /\ orders' = [o \in 1..Len(orders) |->
                  IF reqs[r].menuId \in ItemIds(orders[o].items)
                  THEN [orders[o] EXCEPT !.status = "Cancelled"] ELSE orders[o]]
  /\ Finish(r, reqs[r], Success(200, << >>))
  /\ UNCHANGED users

\* MenuItem.findByIdAndDelete
deleteMenuItem_delete(r) ==
  /\ At(r, "deleteMenuItem", "delete")
  /\ menu' = [menu EXCEPT ![reqs[r].menuId] = [NoItem EXCEPT !.used = TRUE]]
  /\ Finish(r, reqs[r], Success(200, << >>))
  /\ UNCHANGED <<users, orders>>

----------------------------------------------------------------------------
(* POST /api/auth/register: register *)

\* process.env.ADMIN_SECRET_CODE || '123456'
ADMIN_SECRET_CODE == <<"1", "2", "3", "4", "5", "6">>

\* the order in which the collection gives its ids to the new users
NewUserSeq == <<"n1", "n2">>

\* a user that is not persisted
NoAccount == [exists |-> FALSE, role |-> Null, email |-> << >>]

\* User.findOne({ email })
FindUserByEmail(email) == {u \in DOMAIN users : users[u].exists /\ users[u].email = email}

\* the unique index on the email of a user: the insert of a second user
\* with the email fails with the duplicate key error
DuplicateKey(email) == \E u \in DOMAIN users : users[u].exists /\ users[u].email = email

\* role || 'user', as the persisted role
RoleOrUser(role) ==
  IF IsTruthy(role) /\ role.v = AdminRole THEN "admin" ELSE "user"

FreeUserIds == LET Unused(u) == ~users[u].exists IN SelectSeq(NewUserSeq, Unused)

register_begin(r, body) ==
  /\ Free(r)
  /\ LET req == [Request("register", NoUser) EXCEPT !.regBody = body]
         validation == validateRegisterInput(body, ADMIN_SECRET_CODE)
     IN IF validation.threw
        THEN Finish(r, req, errorHandler(Thrown("TypeError", << >>)))
        ELSE IF ~validation.valid
        THEN Finish(r, req, errorHandler(ApiError(<<"Validation failed">>, 400,
                                                  Details(validation.errors))))
        ELSE Goto(r, req, "find")
  /\ UNCHANGED <<users, menu, orders>>

register_find(r) ==
  /\ At(r, "register", "find")
  /\ LET req == reqs[r]
         existingUser == FindUserByEmail(LowerCase(req.regBody.email.v))
     IN IF existingUser # {}
        THEN Finish(r, req, errorHandler(ApiError(<<"User already exists with this email">>,
                                                  409, << >>)))
        ELSE Goto(r, req, "create")
  /\ UNCHANGED <<users, menu, orders>>

\* User.create, generateToken and the reply
register_create(r) ==
  /\ At(r, "register", "create")
  /\ Len(FreeUserIds) > 0
  /\ LET req == reqs[r]
         id == FreeUserIds[1]
         user == [exists |-> TRUE, role |-> RoleOrUser(req.regBody.role),
                  email |-> trim(LowerCase(req.regBody.email.v))]
     IN IF DuplicateKey(user.email)
        THEN /\ Finish(r, req, errorHandler(Thrown("MongoServerError", <<"email">>)))
             /\ UNCHANGED users
        ELSE /\ users' = [users EXCEPT ![id] = user]
             /\ Finish(r, req,
                       Success(201, <<[id |-> id, email |-> user.email, role |-> user.role]>>))
  /\ UNCHANGED <<menu, orders>>

----------------------------------------------------------------------------
(* Inputs of the requests *)

Margherita == <<"M", "a", "r", "g", "h", "e", "r", "i", "t", "a", " ", "P", "i", "z", "z", "a">>
Cola == <<"C", "o", "l", "a">>
DescriptionText == <<"C", "l", "a", "s", "s", "i", "c", " ", "I", "t", "a", "l", "i", "a", "n", " ", "p", "i", "z", "z", "a">>
ImageUrl == <<"h", "t", "t", "p", "s", ":", "/", "/", "i", "m", "g", "/", "1">>
JohnDoe == <<"J", "o", "h", "n", " ", "D", "o", "e">>
MainStreet == <<"1", "2", "3", " ", "M", "a", "i", "n", " ", "S", "t", ",", " ", "C", "i", "t", "y">>
PhoneNumber == <<"+", "1", "2", "3", "4", "5", "6", "7", "8", "9", "0">>

\* the catalog the server starts with: one seeded item, one id not yet given
SeedMenu ==
  [m \in MenuIds |->
     IF m = "m1"
     THEN [exists |-> TRUE, used |-> TRUE, name |-> Margherita,
           description |-> DescriptionText, price |-> 12990, image |-> ImageUrl,
           category |-> Pizza, available |-> TRUE]
     ELSE NoItem]

EmailA == <<"a", "@", "b", ".", "i", "o">>
EmailC == <<"c", "@", "b", ".", "i", "o">>
EmailCUpper == <<"C", "@", "b", ".", "i", "o">>
EmailD == <<"d", "@", "b", ".", "i", "o">>
EmailU == <<"u", "@", "b", ".", "i", "o">>
EmailW == <<"w", "@", "b", ".", "i", "o">>

\* the users the server starts with, and the ids of the users to come
SeedUsers ==
  [u \in UserIds \cup {GhostId} \cup Range(NewUserSeq) |->
     IF u \notin UserIds THEN NoAccount
     ELSE [exists |-> TRUE, role |-> IF u = "a1" THEN "admin" ELSE "user",
           email |-> CASE u = "u1" -> EmailA [] u = "u2" -> EmailU [] OTHER -> EmailW]]

BlankPhone == <<" ", " ", " ", " ", " ", " ", " ", " ", " ", " ">>

ValidDetails == [t |-> "object", name |-> Str(<<" ">> \o JohnDoe), address |-> Str(MainStreet),
                 phone |-> Str(PhoneNumber)]

\* a line of req.body.items: an object, or (NullLine) a null element
Line(id, name, price, quantity) ==
  [t |-> "object", menuItemId |-> id, name |-> name, price |-> price, quantity |-> quantity]

NullLine == [Line(Null, Null, UndefNum, UndefNum) EXCEPT !.t = "null"]

\* order bodies: an honest one, the same with a forged name and price, the
\* README's (no name, no price), one with a fractional quantity, one for an
\* unknown item, one with the same item twice, one for two items, one for
\* the second item alone, one whose only line is null, one without delivery
\* details, one whose phone is 10 spaces, and the honest one with a status,
\* a userId and a totalAmount added
OrderBodies ==
  {[NoBody EXCEPT !.items = [t |-> "array", v |-> lines], !.deliveryDetails = ValidDetails] :
     lines \in {<<Line("m1", "Margherita Pizza", Num(12990), Num(2000))>>,
                <<Line("m1", "Free lunch", Num(10), Num(2000))>>,
                <<Line("m1", Null, UndefNum, Num(2000))>>,
                <<Line("m1", "Margherita Pizza", Num(12990), Num(1500))>>,
                <<Line("m9", "Ghost", Num(1000), Num(1000))>>,
                <<Line("m1", "Margherita Pizza", Num(12990), Num(1000)),
                  Line("m1", "Margherita Pizza", Num(12990), Num(1000))>>,
                <<Line("m1", "Margherita Pizza", Num(12990), Num(1000)),
                  Line("m2", "Cola", Num(1000), Num(3000))>>,
                <<Line("m2", "Cola", Num(1000), Num(3000))>>,
                <<NullLine>>}}
  \cup {[NoBody EXCEPT
           !.items = [t |-> "array", v |-> <<Line("m1", "Margherita Pizza", Num(12990), Num(1000))>>],
           !.deliveryDetails = d] :
          d \in {NoBody.deliveryDetails, [ValidDetails EXCEPT !.phone = Str(BlankPhone)]}}
  \cup {[items |-> [t |-> "array", v |-> <<Line("m1", "Margherita Pizza", Num(12990), Num(2000))>>],
         deliveryDetails |-> ValidDetails,
         status |-> "Delivered", userId |-> "a1", totalAmount |-> Num(10)]}

\* menu bodies: a new item with a price of 3 decimals, a free one, one whose
\* name is not a text, one of the category Other, and the partial updates
\* of the price and of the availability
MenuBodies ==
  {[NoMenuBody EXCEPT !.name = Str(Cola), !.description = Str(DescriptionText),
                      !.price = Num(1005), !.image = Str(ImageUrl),
                      !.category = Str(Drinks)],
   [NoMenuBody EXCEPT !.name = Str(Cola), !.description = Str(DescriptionText),
                      !.price = Num(0), !.image = Str(ImageUrl),
                      !.category = Str(Drinks), !.available = Bool(TRUE)],
   [NoMenuBody EXCEPT !.name = NotText, !.description = Str(DescriptionText),
                      !.price = Num(1000), !.image = Str(ImageUrl),
                      !.category = Str(Drinks)],
   [NoMenuBody EXCEPT !.name = Str(Cola), !.description = Str(DescriptionText),
                      !.price = Num(1000), !.image = Str(ImageUrl),
                      !.category = Str(Other)],
   [NoMenuBody EXCEPT !.price = Num(9990)],
   [NoMenuBody EXCEPT !.available = Bool(FALSE)]}

Secret == <<"s", "e", "c", "r", "e", "t">>

RegBody(name, email, password, role, adminSecretCode) ==
  [name |-> name, email |-> email, password |-> password, role |-> role,
   adminSecretCode |-> adminSecretCode]

\* registration bodies: a user whose email is taken, a user, an admin with
\* the code and the same email in another letter case, an admin with another
\* code, without a code and with a blank one, a body with four invalid
\* fields, and one whose name is not a text
RegisterBodies ==
  {RegBody(Str(JohnDoe), Str(EmailA), Str(Secret), Str(UserRole), UndefStr),
   RegBody(Str(JohnDoe), Str(EmailCUpper), Str(Secret), Str(UserRole), UndefStr),
   RegBody(Str(JohnDoe), Str(EmailC), Str(Secret), Str(AdminRole), Str(ADMIN_SECRET_CODE)),
   RegBody(Str(JohnDoe), Str(EmailD), Str(Secret), Str(AdminRole),
           Str(<<"6", "5", "4", "3", "2", "1">>)),
   RegBody(Str(JohnDoe), Str(EmailD), Str(Secret), Str(AdminRole), UndefStr),
   RegBody(Str(JohnDoe), Str(EmailD), Str(Secret), Str(AdminRole), Str(<<" ", " ">>)),
   RegBody(UndefStr, Str(<<"a", "@", "b">>), Str(<<"a", "b", "c">>),
           Str(<<"r", "o", "o", "t">>), UndefStr),
   RegBody(NotText, Str(EmailD), Str(Secret), Str(UserRole), UndefStr)}

OrderIdInputs == 0..MaxOrders
MenuIdInputs == MenuIds \cup {"m9"}

\* the tokens the server issued to the persisted users
IssuedTokens ==
  {[kind |-> "valid", userId |-> u, role |-> SeedUsers[u].role] : u \in UserIds}

\* the order createOrder persists for user u and the first body of OrderBodies
SeedOrder(u) ==
  [id |-> 1, userId |-> u,
   items |-> <<[menuItemId |-> "m1", name |-> Margherita, price |-> 12990,
                quantity |-> 2000]>>,
   totalAmount |-> 25980,
   deliveryDetails |-> [name |-> JohnDoe, address |-> MainStreet, phone |-> PhoneNumber],
   status |-> "Order Received"]

----------------------------------------------------------------------------
(* The browser: values, localStorage and the replies of the API *)

\* JavaScript values of the client: null, undefined, a string, an object
\* (a user, by its id) and the JSON text of an object; a token is the
\* string signed for a user id
JsNull == [t |-> "null", v |-> ""]
JsUndefined == [t |-> "undefined", v |-> ""]
JsString(s) == [t |-> "string", v |-> s]
JsObject(id) == [t |-> "object", v |-> id]

\* !!x
JsTruthy(x) == x.t \in {"object", "json"} \/ (x.t = "string" /\ x.v # "")

\* obj.name: undefined when the object has no such property
Field(obj, name) == IF name \in DOMAIN obj THEN obj[name] ELSE JsUndefined

\* JSON.stringify of a user object or of undefined
JSONstringify(x) == IF x.t = "object" THEN [t |-> "json", v |-> x.v] ELSE JsUndefined

\* JSON.parse of a stored text: the object, or a SyntaxError
JSONparse(s) ==
  IF s.t = "json" THEN [threw |-> FALSE, value |-> JsObject(s.v)]
  ELSE [threw |-> TRUE, value |-> JsUndefined]

\* the stored cart: none, a text that is not JSON, or the JSON text of the
\* items
NoStoredCart == [t |-> "null", v |-> << >>]
CorruptCart == [t |-> "string", v |-> << >>]
StoredCart(items) == [t |-> "json", v |-> items]

EmptyStorage == [token |-> JsNull, user |-> JsNull, cart |-> NoStoredCart]

\* localStorage.setItem(key, value): the value is stored as a string
setItem(storage, key, value) ==
  [storage EXCEPT ![key] = IF value.t = "undefined" THEN JsString("undefined") ELSE value]

\* localStorage.removeItem(key)
removeItem(storage, key) == [storage EXCEPT ![key] = JsNull]

\* authService.getStoredUser
getStoredUser(storage) ==
  LET userStr == storage.user IN
  IF JsTruthy(userStr)
  THEN IF JSONparse(userStr).threw THEN JsNull ELSE JSONparse(userStr).value
  ELSE JsNull

\* the token generateToken signs for a user
generateToken(userId) == JsString(userId)

\* the body of the 201 reply of register and of the 200 reply of login
AuthReply(userId) ==
  [success |-> TRUE,
   data |-> [user |-> JsObject(userId), token |-> generateToken(userId)]]

\* the outcomes of an API call: a reply of a status for a user, or no reply
\* (status 0: the network failed or the request timed out)
Outcome(status, userId) == [status |-> status, userId |-> userId]

RegisterOutcomes == {Outcome(201, "n1"), Outcome(400, ""), Outcome(409, ""), Outcome(0, "")}
LoginOutcomes == {Outcome(200, "u1"), Outcome(200, "a1"), Outcome(401, ""), Outcome(0, "")}
LogoutOutcomes == {Outcome(200, ""), Outcome(401, ""), Outcome(500, ""), Outcome(0, "")}

\* the response interceptor on an error: a 401 clears the session
Interceptor(storage, outcome) ==
  IF outcome.status = 401 THEN removeItem(removeItem(storage, "token"), "user")
  ELSE storage

----------------------------------------------------------------------------
(* AuthProvider and authService *)

\* the provider before its mount effect: useState(null), useState(true);
\* settled is the call that settled last
NoAuth == [mounted |-> FALSE, user |-> JsNull, isLoading |-> TRUE, pc |-> "idle",
           settled |-> [op |-> "none", status |-> 0, userId |-> ""]]

isAuthenticated == JsTruthy(auth.user)

\* the page is loaded (or loaded again after the redirect of a 401): the
\* provider is created and its mount effect takes the stored user
AuthProvider_mount ==
  /\ ~auth.mounted
  /\ LET storedUser == getStoredUser(localStorage) IN
     auth' = [NoAuth EXCEPT !.mounted = TRUE,
                            !.user = IF JsTruthy(storedUser) THEN storedUser ELSE JsNull,
                            !.isLoading = FALSE, !.settled = auth.settled]
  /\ UNCHANGED <<users, menu, orders, reqs, localStorage, cart>>

\* login, register or logout up to the await of api.post
Auth_call(op) ==
  /\ auth.mounted /\ auth.pc = "idle"
  /\ auth' = [auth EXCEPT !.isLoading = TRUE, !.pc = op]
  /\ UNCHANGED <<users, menu, orders, reqs, localStorage, cart>>

\* what a settled call leaves in the provider: a 401 has set
\* window.location.href, so the page is about to load again
Settled(op, outcome, user) ==
  [auth EXCEPT !.user = user, !.isLoading = FALSE, !.pc = "idle",
               !.mounted = outcome.status # 401,
               !.settled = [op |-> op, status |-> outcome.status, userId |-> outcome.userId]]

\* a register that unwraps the reply as login does
register_settleUnwrapped(outcome) ==
  /\ auth.pc = "register"
  /\ IF outcome.status = 201
     THEN LET authData == AuthReply(outcome.userId).data IN
          /\ localStorage' = setItem(setItem(localStorage, "token", Field(authData, "token")),
                                     "user", JSONstringify(Field(authData, "user")))
          /\ auth' = Settled("register", outcome, Field(authData, "user"))
     ELSE /\ localStorage' = Interceptor(localStorage, outcome)
          /\ auth' = Settled("register", outcome, auth.user)
  /\ UNCHANGED <<users, menu, orders, reqs, cart>>

\* authService.register returns response.data; the provider sets
\* response.user
register_settle(outcome) ==
  /\ auth.pc = "register"
  /\ IF outcome.status = 201
     THEN LET response == [data |-> AuthReply(outcome.userId)] IN
          /\ localStorage' = setItem(setItem(localStorage, "token",
                                             Field(response.data, "token")),
                                     "user", JSONstringify(Field(response.data, "user")))
          /\ auth' = Settled("register", outcome, Field(response.data, "user"))
     ELSE /\ localStorage' = Interceptor(localStorage, outcome)
          /\ auth' = Settled("register", outcome, auth.user)
  /\ UNCHANGED <<users, menu, orders, reqs, cart>>

\* authService.login returns response.data.data; the provider sets
\* response.user
login_settle(outcome) ==
  /\ auth.pc = "login"
  /\ IF outcome.status = 200
     THEN LET response == [data |-> AuthReply(outcome.userId)]
              authData == response.data.data
          IN /\ localStorage' = setItem(setItem(localStorage, "token",
                                                Field(authData, "token")),
                                        "user", JSONstringify(Field(authData, "user")))
             /\ auth' = Settled("login", outcome, Field(authData, "user"))
     ELSE /\ localStorage' = Interceptor(localStorage, outcome)
          /\ auth' = Settled("login", outcome, auth.user)
  /\ UNCHANGED <<users, menu, orders, reqs, cart>>

\* authService.logout clears the storage in its finally; the provider's
\* setUser(null) follows the await and is skipped when the call is rejected
logout_settle(outcome) ==
  /\ auth.pc = "logout"
  /\ localStorage' = removeItem(removeItem(Interceptor(localStorage, outcome), "token"), "user")
  /\ auth' = Settled("logout", outcome,
                     IF outcome.status = 200 THEN JsNull ELSE auth.user)
  /\ UNCHANGED <<users, menu, orders, reqs, cart>>

----------------------------------------------------------------------------
(* CartProvider *)

\* the most a cart holds of one item
MaxQuantity == 3

\* the provider before it is rendered: useState([]), useState(false); items
\* and isInitialized are the values of the last render, next the values
\* after the state updates queued since, called the function of the cart
\* that was called last
NoCart == [pc |-> "unmounted", items |-> << >>, isInitialized |-> FALSE,
           next |-> [items |-> << >>, isInitialized |-> FALSE], called |-> "none"]

CartIds(items) == {items[i].menuItemId : i \in 1..Len(items)}

\* an addItem that never looks for the item in the cart
addItemAlwaysNew(currentItems, id, quantity) ==
  Append(currentItems, [menuItemId |-> id, quantity |-> quantity])

\* the updater of addItem
addItem(currentItems, id, quantity) ==
  IF id \in CartIds(currentItems)
  THEN [i \in 1..Len(currentItems) |->
          IF currentItems[i].menuItemId = id
          THEN [currentItems[i] EXCEPT !.quantity = @ + quantity]
          ELSE currentItems[i]]
  ELSE Append(currentItems, [menuItemId |-> id, quantity |-> quantity])

\* the updater of removeItem
removeCartItem(currentItems, id) ==
  LET Kept(item) == item.menuItemId # id IN SelectSeq(currentItems, Kept)

\* updateQuantity: removeItem for a quantity of 0 or less, else the updater
updateQuantity(currentItems, id, quantity) ==
  IF quantity <= 0 THEN removeCartItem(currentItems, id)
  ELSE [i \in 1..Len(currentItems) |->
          IF currentItems[i].menuItemId = id
          THEN [currentItems[i] EXCEPT !.quantity = quantity]
          ELSE currentItems[i]]

\* items.reduce((sum, item) => sum + item.quantity, 0)
RECURSIVE itemCount(_)
itemCount(items) ==
  IF Len(items) = 0 THEN 0
  ELSE itemCount(SubSeq(items, 1, Len(items) - 1)) + items[Len(items)].quantity

\* the first render: both effects are scheduled, the load effect first
CartProvider_mount ==
  /\ cart.pc = "unmounted"
  /\ cart' = [NoCart EXCEPT !.pc = "load"]
  /\ UNCHANGED <<users, menu, orders, reqs, localStorage, auth>>

\* the load effect: setItems(parsedCart) when the stored cart parses, then
\* setIsInitialized(true)
CartProvider_loadEffect ==
  /\ cart.pc = "load"
  /\ LET storedCart == localStorage.cart IN
     cart' = [cart EXCEPT !.pc = "save",
                          !.next = [items |-> IF storedCart.t = "json" THEN storedCart.v
                                              ELSE cart.next.items,
                                    isInitialized |-> TRUE]]
  /\ UNCHANGED <<users, menu, orders, reqs, localStorage, auth>>

\* a save effect that does not wait for the load
ShouldSaveAlways(isInitialized) == TRUE

\* if (isInitialized)
ShouldSave(isInitialized) == isInitialized

\* the save effect of the last render; a render follows when state updates
\* are queued
CartProvider_saveEffect ==
  /\ cart.pc = "save"
  /\ localStorage' = IF ShouldSave(cart.isInitialized)
                     THEN [localStorage EXCEPT !.cart = StoredCart(cart.items)]
                     ELSE localStorage
  /\ cart' = [cart EXCEPT !.pc = IF cart.next.items # cart.items
                                    \/ cart.next.isInitialized # cart.isInitialized
                                 THEN "render" ELSE "idle"]
  /\ UNCHANGED <<users, menu, orders, reqs, auth>>

\* the render after state updates: the new items are a new array, so the
\* save effect is scheduled
CartProvider_render ==
  /\ cart.pc = "render"
  /\ cart' = [cart EXCEPT !.pc = "save", !.items = cart.next.items,
                          !.isInitialized = cart.next.isInitialized]
  /\ UNCHANGED <<users, menu, orders, reqs, localStorage, auth>>

\* a call of the cart's functions by the pages, once the effects have run
SetItems(function, items) ==
  /\ cart.pc = "idle"
  /\ cart' = [cart EXCEPT !.pc = "render", !.next = [@ EXCEPT !.items = items],
                          !.called = function]
  /\ UNCHANGED <<users, menu, orders, reqs, localStorage, auth>>

Cart_addItem(id, quantity) ==
  /\ itemCount(cart.items) + quantity <= MaxQuantity
  /\ SetItems("addItem", addItem(cart.items, id, quantity))

Cart_removeItem(id) == SetItems("removeItem", removeCartItem(cart.items, id))

Cart_updateQuantity(id, quantity) ==
  /\ itemCount(updateQuantity(cart.items, id, quantity)) <= MaxQuantity
  /\ SetItems("updateQuantity", updateQuantity(cart.items, id, quantity))

Cart_clearCart == SetItems("clearCart", << >>)

\* no page is open
ClientClosed ==
  /\ localStorage = EmptyStorage
  /\ auth = NoAuth
  /\ cart = NoCart

----------------------------------------------------------------------------
(* The server *)

\* createOrder requests in flight that have not inserted their order yet
Creating == {r \in ReqIds : reqs[r].op = "createOrder" /\ reqs[r].pc \in {"find", "create"}}

\* the requests that change the status of an order
StatusStep(r, toks, ids, statuses) ==
  \/ \E tok \in toks, id \in ids, status \in statuses :
       updateOrderStatus_begin(r, tok, id, status)
  \/ updateOrderStatus_find(r)
  \/ updateOrderStatus_save(r)
  \/ \E tok \in toks, id \in ids : cancelOrder_begin(r, tok, id)
  \/ cancelOrder_find(r)
  \/ cancelOrder_save(r)

CreateStep(r, toks) ==
  \/ \E tok \in toks, body \in OrderBodies :
       Len(orders) + Cardinality(Creating) < MaxOrders /\ createOrder_begin(r, tok, body)
  \/ createOrder_find(r)
  \/ createOrder_create(r)
  \/ createOrder_populate(r)

ReadStep(r, toks, ids) ==
  \/ \E tok \in toks, id \in ids : getOrderById_begin(r, tok, id)
  \/ getOrderById_find(r)
  \/ \E tok \in toks : getUserOrders_begin(r, tok)
  \/ getUserOrders_find(r)

ListStep(r, toks) ==
  \/ \E tok \in toks, status \in {Null, "Delivered"} : getAllOrders_begin(r, tok, status)
  \/ getAllOrders_find(r)

MenuStep(r, toks, ids) ==
  \/ \E tok \in toks, body \in MenuBodies : createMenuItem_begin(r, tok, body)
  \/ createMenuItem_create(r)
  \/ \E tok \in toks, id \in ids, body \in MenuBodies :
       updateMenuItem_begin(r, tok, id, body)
  \/ updateMenuItem_find(r)
  \/ updateMenuItem_update(r)
  \/ \E tok \in toks, id \in ids : deleteMenuItem_begin(r, tok, id)
  \/ deleteMenuItem_find(r)
  \/ deleteMenuItem_delete(r)

\* The order routes, one request at a time, from an empty order collection.
Init ==
  /\ users = SeedUsers
  /\ menu = SeedMenu
  /\ orders = << >>
  /\ reqs = [r \in ReqIds |-> Idle]
  /\ ClientClosed

Next ==
  \/ StatusStep("r1", IssuedTokens, OrderIdInputs,
                {"Preparing", "Out for Delivery", "Delivered"} \cup (StatusInputs \ OrderStatuses))
  \/ CreateStep("r1", {NoToken} \cup {t \in IssuedTokens : t.role = "user"})
  \/ ReadStep("r1", {NoToken} \cup IssuedTokens, OrderIdInputs)
  \/ ListStep("r1", {NoToken} \cup IssuedTokens)

Spec == Init /\ [][Next]_vars

\* Status changes of one order by requests that interleave at their awaits.
InitLifecycle ==
  /\ users = SeedUsers
  /\ menu = SeedMenu
  /\ orders = <<SeedOrder("u1")>>
  /\ reqs = [r \in ReqIds |-> Idle]
  /\ ClientClosed

NextLifecycle == \E r \in ReqIds : StatusStep(r, IssuedTokens, {1}, OrderStatuses)

SpecLifecycle == InitLifecycle /\ [][NextLifecycle]_vars

\* The admin-only routes, one request at a time, with one order placed.
NextAdmin ==
  \/ MenuStep("r1", Tokens, MenuIds)
  \/ ListStep("r1", Tokens)
  \/ \E tok \in Tokens, status \in {"Preparing", "Cancelled"} :
       updateOrderStatus_begin("r1", tok, 1, status)
  \/ updateOrderStatus_find("r1")
  \/ updateOrderStatus_save("r1")

SpecAdmin == InitLifecycle /\ [][NextAdmin]_vars

\* register requests that have not inserted their user yet
Registering == {r \in ReqIds : reqs[r].op = "register" /\ reqs[r].pc \in {"find", "create"}}

RegisterStep(r) ==
  \/ \E body \in RegisterBodies :
       Cardinality(Registering) < Len(FreeUserIds) /\ register_begin(r, body)
  \/ register_find(r)
  \/ register_create(r)

\* Registrations by requests that interleave at their awaits.
NextRegister == \E r \in ReqIds : RegisterStep(r)

SpecRegister == Init /\ [][NextRegister]_vars

\* a second item of the catalog, at a price and available or not
ColaItem(price, available) ==
  [exists |-> TRUE, used |-> TRUE, name |-> Cola, description |-> DescriptionText,
   price |-> price, image |-> ImageUrl, category |-> Drinks, available |-> available]

\* the catalogs the orders are placed against: the seeded one, and the
\* seeded one with a second item that is sold, withdrawn or free
Catalogs ==
  {SeedMenu}
  \cup {[SeedMenu EXCEPT !["m2"] = item] :
          item \in {ColaItem(5 * NumScale, TRUE), ColaItem(5 * NumScale, FALSE),
                    ColaItem(0, TRUE)}}

\* Orders placed and moved on, one request at a time, against each catalog.
InitCatalog ==
  /\ users = SeedUsers
  /\ menu \in Catalogs
  /\ orders = << >>
  /\ reqs = [r \in ReqIds |-> Idle]
  /\ ClientClosed

NextCatalog ==
  \/ CreateStep("r1", {t \in IssuedTokens : t.userId = "u1"})
  \/ StatusStep("r1", {t \in IssuedTokens : t.userId # "u2"}, OrderIds,
                {"Preparing", "Delivered"})

SpecCatalog == InitCatalog /\ [][NextCatalog]_vars

\* The admin's changes of the catalog and the status changes of the seeded
\* order by the admin and by its owner, one request at a time.
NextFrame ==
  \/ MenuStep("r1", {t \in IssuedTokens : t.role = "admin"}, MenuIds)
  \/ StatusStep("r1", {t \in IssuedTokens : t.userId # "u2"}, {1}, {"Preparing", "Delivered"})

SpecFrame == InitLifecycle /\ [][NextFrame]_vars

\* An order placed by a user while an admin updates or deletes the seeded
\* menu item, the two requests interleaving at their awaits.
NextRace ==
  \/ CreateStep("r1", {t \in IssuedTokens : t.userId = "u1"})
  \/ \E tok \in {t \in IssuedTokens : t.role = "admin"}, body \in MenuBodies :
       updateMenuItem_begin("r2", tok, "m1", body)
  \/ updateMenuItem_find("r2")
  \/ updateMenuItem_update("r2")
  \/ \E tok \in {t \in IssuedTokens : t.role = "admin"} :
       deleteMenuItem_begin("r2", tok, "m1")
  \/ deleteMenuItem_find("r2")
  \/ deleteMenuItem_delete("r2")

SpecRace == Init /\ [][NextRace]_vars

\* The sessions a browser may hold when the page is loaded: none, the one of
\* a logged-in user, and one whose stored user does not parse.
Sessions ==
  {EmptyStorage,
   [EmptyStorage EXCEPT !.token = generateToken("u1"),
                        !.user = JSONstringify(JsObject("u1"))],
   [EmptyStorage EXCEPT !.token = generateToken("u2"), !.user = JsString("undefined")]}

InitAuth ==
  /\ users = SeedUsers
  /\ menu = SeedMenu
  /\ orders = << >>
  /\ reqs = [r \in ReqIds |-> Idle]
  /\ localStorage \in Sessions
  /\ auth = NoAuth
  /\ cart = NoCart

\* The calls of the AuthProvider, each settled by one of the replies of the
\* API or by none.
NextAuth ==
  \/ AuthProvider_mount
  \/ \E op \in {"register", "login", "logout"} : Auth_call(op)
  \/ \E outcome \in RegisterOutcomes : register_settle(outcome)
  \/ \E outcome \in LoginOutcomes : login_settle(outcome)
  \/ \E outcome \in LogoutOutcomes : logout_settle(outcome)

SpecAuth == InitAuth /\ [][NextAuth]_vars

\* The carts a browser may hold when the page is loaded: none, a text that
\* does not parse, an empty cart and carts of one and of two items.
StoredCarts ==
  {NoStoredCart, CorruptCart, StoredCart(<< >>),
   StoredCart(<<[menuItemId |-> "m1", quantity |-> 2]>>),
   StoredCart(<<[menuItemId |-> "m2", quantity |-> 1], [menuItemId |-> "m1", quantity |-> 1]>>)}

InitCart ==
  /\ users = SeedUsers
  /\ menu = SeedMenu
  /\ orders = << >>
  /\ reqs = [r \in ReqIds |-> Idle]
  /\ localStorage \in {[EmptyStorage EXCEPT !.cart = c] : c \in StoredCarts}
  /\ auth = NoAuth
  /\ cart = NoCart

CartEffects ==
  \/ CartProvider_loadEffect
  \/ CartProvider_saveEffect
  \/ CartProvider_render

\* The CartProvider from its first render on, and the calls of the pages.
NextCart ==
  \/ CartProvider_mount
  \/ CartEffects
  \/ \E id \in MenuIds, quantity \in 1..MaxQuantity : Cart_addItem(id, quantity)
  \/ \E id \in MenuIds : Cart_removeItem(id)
  \/ \E id \in MenuIds, quantity \in -1..MaxQuantity : Cart_updateQuantity(id, quantity)
  \/ Cart_clearCart

SpecCart == InitCart /\ [][NextCart]_vars

\* React runs the effects of a render and the render of a queued update
SpecCartLive == SpecCart /\ WF_vars(CartEffects)

----------------------------------------------------------------------------
(* Properties of the order lifecycle *)

\* connection r takes a step
Stepped(r) == reqs'[r] # reqs[r]

Done(r, op, code) == reqs[r].pc = "done" /\ reqs[r].op = op /\ reqs[r].res.code = code

StatusOps == {"updateOrderStatus", "cancelOrder"}

\* C1: an order becomes Cancelled only from Order Received or Preparing; an
\* order that is Out for Delivery or Delivered never moves to Cancelled.
C1_CancelledOnlyFromEarly ==
  [][\A id \in 1..Len(orders) :
       (orders'[id].status = "Cancelled" /\ orders[id].status # "Cancelled")
         => orders[id].status \in {"Order Received", "Preparing"}]_vars

\* C2: updateOrderStatus that reads an order in status Delivered or Cancelled
\* replies 400, whatever the target status, and leaves the orders unchanged.
C2_LockedOrderRejected ==
  [][\A r \in ReqIds :
       (/\ At(r, "updateOrderStatus", "find")
        /\ Stepped(r)
        /\ FindOrder(reqs[r].id) # NoDoc
        /\ FindOrder(reqs[r].id).status \in {"Delivered", "Cancelled"})
         => (/\ reqs'[r].pc = "done"
             /\ reqs'[r].res.code = 400
             /\ orders' = orders)]_vars

\* an update of a cancelled order to Cancelled itself was answered 400
C2_Witness ==
  \E r \in ReqIds :
    /\ Done(r, "updateOrderStatus", 400)
    /\ reqs[r].read = "Cancelled"
    /\ reqs[r].status = "Cancelled"
    /\ orders[1].status = "Cancelled"

C5_CancelOnlyByCreator ==
  /\ [][\A r \in ReqIds :
          (/\ At(r, "cancelOrder", "find")
           /\ Stepped(r)
           /\ FindOrder(reqs[r].id) # NoDoc
           /\ FindOrder(reqs[r].id).userId # reqs[r].user.userId)
            => (/\ reqs'[r].pc = "done"
                /\ reqs'[r].res.code = 403
                /\ orders' = orders)]_vars
  /\ [](\A r \in ReqIds :
          At(r, "cancelOrder", "save") => orders[reqs[r].id].userId = reqs[r].user.userId)

\* an admin who did not place the order was refused
C5_Witness ==
  \E r \in ReqIds :
    /\ Done(r, "cancelOrder", 403)
    /\ reqs[r].user.role = "admin"
    /\ reqs[r].read = "Preparing"
    /\ orders[1].userId # reqs[r].user.userId

----------------------------------------------------------------------------
(* Properties of the access control *)

\* C6: getOrderById returns the order only to its creator or to an admin and
\* replies 403 to any other authenticated requester; getUserOrders returns
\* only orders whose userId is the requester.
C6_OrderReadAccess ==
  [][\A r \in ReqIds :
       /\ (/\ At(r, "getOrderById", "find")
            /\ Stepped(r)
            /\ FindOrder(reqs[r].id) # NoDoc)
             => IF \/ FindOrder(reqs[r].id).userId = reqs[r].user.userId
                   \/ users[reqs[r].user.userId].role = "admin"
                THEN /\ reqs'[r].res.code = 200
                     /\ reqs'[r].res.data = <<FindOrder(reqs[r].id)>>
                ELSE /\ reqs'[r].res.code = 403
                     /\ reqs'[r].res.data = << >>
       /\ (At(r, "getUserOrders", "find") /\ Stepped(r))
             => (/\ reqs'[r].res.code = 200
                 /\ \A i \in 1..Len(reqs'[r].res.data) :
                      reqs'[r].res.data[i].userId = reqs[r].user.userId)]_vars

\* two users have an order each, and one of them was sent only their own
C6_Witness ==
  \E r \in ReqIds :
    /\ Done(r, "getUserOrders", 200)
    /\ Len(orders) = 2
    /\ orders[1].userId # orders[2].userId
    /\ Len(reqs[r].res.data) = 1
    /\ reqs[r].res.data[1].userId = reqs[r].user.userId

AdminOps ==
  {"createMenuItem", "updateMenuItem", "deleteMenuItem", "updateOrderStatus", "getAllOrders"}

PersistedAdmin(user) ==
  user # NoUser /\ users[user.userId].exists /\ users[user.userId].role = "admin"

\* C7: an admin-only handler runs and succeeds only for an authenticated user
\* whose persisted role is admin; a request that fails authentication is
\* answered 401, a non-admin 403, and neither changes a menu item or an order;
\* every change of a menu item or an order is a step of an admin's request.
C7_AdminOnly ==
  /\ [](\A r \in ReqIds :
          reqs[r].op \in AdminOps =>
            /\ reqs[r].pc # "done" => PersistedAdmin(reqs[r].user)
            /\ reqs[r].pc = "done" =>
                 /\ reqs[r].user = NoUser => reqs[r].res.code = 401
                 /\ (reqs[r].user # NoUser /\ ~PersistedAdmin(reqs[r].user))
                      => reqs[r].res.code = 403
                 /\ reqs[r].res.code \in {200, 201} => PersistedAdmin(reqs[r].user))
  /\ [][(menu' # menu \/ orders' # orders) =>
          \E r \in ReqIds :
            /\ Stepped(r)
            /\ reqs[r].op \in AdminOps
            /\ reqs[r].pc \notin {"idle", "done"}
            /\ PersistedAdmin(reqs[r].user)]_vars
  /\ [][\A r \in ReqIds :
          (Stepped(r) /\ reqs'[r].pc = "done" /\ reqs'[r].res.code \in {401, 403})
            => (menu' = menu /\ orders' = orders)]_vars

\* a user whose token claims the admin role was refused, and the menu and
\* the order are as they were
C7_Witness ==
  \E r \in ReqIds :
    /\ Done(r, "deleteMenuItem", 403)
    /\ reqs[r].user = [userId |-> "u2", role |-> "user"]
    /\ menu = SeedMenu
    /\ orders = <<SeedOrder("u1")>>

\* C9: a status that is not one of the 5 canonical strings never passes:
\* validateOrderStatus reports one error on the field status, whose message
\* lists the 5 valid values when the status is not empty, and
\* updateOrderStatus replies 400 to the admin without reading or changing an
\* order.
C9_InvalidStatusRejected ==
  /\ [](\A s \in StatusInputs \ OrderStatuses :
          LET v == validateOrderStatus(s) IN
          /\ ~v.valid
          /\ Len(v.errors) = 1
          /\ v.errors[1].field = <<"status">>
          /\ ~Falsy(s) => OrderStatuses \subseteq Range(v.errors[1].message))
  /\ [](\A r \in ReqIds :
          (reqs[r].op = "updateOrderStatus" /\ reqs[r].status \notin OrderStatuses) =>
            /\ reqs[r].pc = "done"
            /\ reqs[r].read = Null
            /\ reqs[r].prev = Null
            /\ reqs[r].res.code \in {400, 401, 403}
            /\ PersistedAdmin(reqs[r].user) =>
                 /\ reqs[r].res.code = 400
                 /\ Len(reqs[r].res.details) = 1
                 /\ reqs[r].res.details[1][1] = "status"
                 /\ ~Falsy(reqs[r].status) =>
                      OrderStatuses \subseteq Range(reqs[r].res.details[1]))
  /\ [][\A r \in ReqIds :
          (/\ Stepped(r)
           /\ reqs'[r].op = "updateOrderStatus"
           /\ reqs'[r].status \notin OrderStatuses) => orders' = orders]_vars

\* the admin sent the status Pending for an order that exists and was
\* answered 400 with the list of the valid values
C9_Witness ==
  \E r \in ReqIds :
    /\ Done(r, "updateOrderStatus", 400)
    /\ reqs[r].status = "Pending"
    /\ reqs[r].res.error = <<"Validation failed">>
    /\ "Out for Delivery" \in Range(reqs[r].res.details[1])
    /\ Len(orders) > 0
    /\ orders[1].status = "Order Received"

----------------------------------------------------------------------------
(* Properties of the order creation *)

\* the total of the lines at the catalog's prices, in mills
RECURSIVE CatalogTotal(_)
CatalogTotal(items) ==
  IF Len(items) = 0 THEN 0
  ELSE (menu[items[1].menuItemId].price * items[1].quantity.v) \div NumScale
       + CatalogTotal(Tail(items))

\* two bodies that differ at most in the names and prices of their lines
SameButNamesAndPrices(a, b) ==
  /\ a.deliveryDetails = b.deliveryDetails
  /\ a.items.t = b.items.t
  /\ Len(a.items.v) = Len(b.items.v)
  /\ \A i \in 1..Len(a.items.v) :
       /\ a.items.v[i].menuItemId = b.items.v[i].menuItemId
       /\ a.items.v[i].quantity = b.items.v[i].quantity

\* C10: the order createOrder prepares and persists carries, line by line,
\* the menu item's persisted name and price and the total computed from
\* them; a valid body that differs only in the client's names and prices
\* gives the same lines.
C10_ClientPriceIgnored ==
  [][\A r \in ReqIds :
       /\ (At(r, "createOrder", "find") /\ Stepped(r) /\ reqs'[r].pc = "create")
             => LET items == reqs[r].body.items.v
                    doc == reqs'[r].doc
                IN /\ Len(doc.items) = Len(items)
                   /\ \A i \in 1..Len(items) :
                        /\ doc.items[i].menuItemId = items[i].menuItemId
                        /\ doc.items[i].quantity = items[i].quantity.v
                        /\ doc.items[i].name = menu[items[i].menuItemId].name
                        /\ doc.items[i].price = menu[items[i].menuItemId].price
                   /\ doc.totalAmount = Round2(CatalogTotal(items))
                   /\ \A b \in OrderBodies :
                        (validateOrderInput(b).valid /\ SameButNamesAndPrices(b, reqs[r].body))
                          => EnrichItems(b.items.v, FindMenuItems(ItemIds(b.items.v)))
                               = doc.items
       /\ (At(r, "createOrder", "create") /\ Stepped(r) /\ reqs'[r].pc = "populate")
             => (/\ Len(orders') = Len(orders) + 1
                 /\ orders'[Len(orders')].items = reqs[r].doc.items
                 /\ orders'[Len(orders')].totalAmount = reqs[r].doc.totalAmount)]_vars

\* a body with a forged name and price was persisted at the catalog's price
C10_Witness ==
  \E r \in ReqIds :
    /\ At(r, "createOrder", "populate")
    /\ reqs[r].body.items.v[1].price.v = 10
    /\ reqs[r].body.items.v[1].name = "Free lunch"
    /\ orders[reqs[r].id].items[1].price = 12990
    /\ orders[reqs[r].id].items[1].name = Margherita
    /\ orders[reqs[r].id].totalAmount = 25980

\* the sum of price times quantity over the lines of an order, in mills
RECURSIVE ItemsTotal(_)
ItemsTotal(items) ==
  IF Len(items) = 0 THEN 0
  ELSE ItemsTotal(SubSeq(items, 1, Len(items) - 1))
       + (items[Len(items)].price * items[Len(items)].quantity) \div NumScale

\* the lines {price 10, quantity 2} and {price 5, quantity 3}
ExampleItems ==
  <<[menuItemId |-> "m1", name |-> Margherita, price |-> 10 * NumScale,
     quantity |-> 2 * NumScale],
    [menuItemId |-> "m2", name |-> Cola, price |-> 5 * NumScale,
     quantity |-> 3 * NumScale]>>

\* C11: every persisted order has at least one line and a totalAmount equal
\* to the sum over its lines of price times quantity rounded to 2 decimals;
\* the lines {10, 2} and {5, 3} are saved with the total 35.00.
C11_TotalMatchesItems ==
  /\ [](\A i \in 1..Len(orders) :
          /\ Len(orders[i].items) > 0
          /\ orders[i].totalAmount = Round2(ItemsTotal(orders[i].items)))
  /\ [](PreSave([NoDoc EXCEPT !.items = ExampleItems]).totalAmount = 35 * NumScale)

\* an order of two lines was placed and then moved to Preparing
C11_Witness ==
  \E i \in 1..Len(orders) :
    /\ Len(orders[i].items) = 2
    /\ orders[i].status = "Preparing"
    /\ orders[i].totalAmount = 27990

\* the ids of the lines all resolve to a menu item
AllResolve(items) ==
  \A i \in 1..Len(items) :
    items[i].menuItemId \in MenuIds /\ menu[items[i].menuItemId].exists

\* C12: createOrder replies 400 and persists nothing when a line's
\* menuItemId does not resolve, when a resolved item is unavailable, or when
\* the rounded total is not greater than 0; an order about to be inserted
\* has none of the three.
C12_CreateOrderRejects ==
  /\ [][\A r \in ReqIds :
          (At(r, "createOrder", "find") /\ Stepped(r))
            => LET items == reqs[r].body.items.v
                   bad == \/ ~AllResolve(items)
                          \/ \E i \in 1..Len(items) : ~menu[items[i].menuItemId].available
                          \/ Round2(CatalogTotal(items)) <= 0
               IN bad => (/\ reqs'[r].pc = "done"
                          /\ reqs'[r].res.code = 400
                          /\ orders' = orders)]_vars
  /\ [](\A r \in ReqIds :
          At(r, "createOrder", "create")
            => (/\ AllResolve(reqs[r].body.items.v)
                /\ \A i \in 1..Len(reqs[r].doc.items) :
                     menu[reqs[r].doc.items[i].menuItemId].available
                /\ reqs[r].doc.totalAmount > 0))

\* an order for a withdrawn item was refused and nothing was persisted
C12_Witness ==
  \E r \in ReqIds :
    /\ Done(r, "createOrder", 400)
    /\ reqs[r].res.error = <<"Some items are not available: ", Cola>>
    /\ ~menu["m2"].available
    /\ orders = << >>

\* C13: createOrder accepts a request whose lines carry only menuItemId and
\* quantity, as in the README's Create Order example: no request of an
\* authenticated user is refused for nothing but the missing name and price
\* of its line.
C13_ReadmeBodyAccepted ==
  \A r \in ReqIds :
    ~(/\ Done(r, "createOrder", 400)
      /\ reqs[r].res.details =
           <<<<"items[", "0", "].", "name", ": ", "Item name is required">>,
             <<"items[", "0", "].", "price", ": ", "Item price is required">>>>)

----------------------------------------------------------------------------
(* Properties of the registration *)

\* the errors of a validation on one field
ErrorsOn(errors, field) ==
  LET OnField(e) == e.field = field IN SelectSeq(errors, OnField)

\* C14: a registration with the role admin is valid only with the server's
\* code: without a code or with a blank one the error is 'Admin secret code
\* is required for admin registration', with another code 'Invalid admin
\* secret code'; a user is persisted as admin only by a register request
\* that carried the role admin and the server's code, and a persisted
\* user's role never changes.
C14_AdminNeedsSecret ==
  /\ [](\A b \in RegisterBodies :
          b.role = Str(AdminRole) =>
            LET v == validateRegisterInput(b, ADMIN_SECRET_CODE)
                onCode == ErrorsOn(v.errors, <<"adminSecretCode">>)
            IN IF b.adminSecretCode = Str(ADMIN_SECRET_CODE)
               THEN onCode = << >>
               ELSE /\ ~v.valid
                    /\ onCode =
                         IF ~IsTruthy(b.adminSecretCode)
                            \/ trim(b.adminSecretCode.v) = << >>
                         THEN Err(<<"adminSecretCode">>,
                                  "Admin secret code is required for admin registration")
                         ELSE Err(<<"adminSecretCode">>, "Invalid admin secret code"))
  /\ [][\A u \in DOMAIN users :
          /\ (users'[u].exists /\ users'[u].role = "admin" /\ ~users[u].exists)
               => \E r \in ReqIds :
                    /\ At(r, "register", "create")
                    /\ Stepped(r)
                    /\ reqs[r].regBody.role = Str(AdminRole)
                    /\ reqs[r].regBody.adminSecretCode = Str(ADMIN_SECRET_CODE)
          /\ users[u].exists => users'[u] = users[u]]_vars

\* an admin was registered with the code, and a registration with another
\* code was refused
C14_Witness ==
  /\ \E u \in Range(NewUserSeq) : users[u].exists /\ users[u].role = "admin"
  /\ \E r \in ReqIds :
       /\ Done(r, "register", 400)
       /\ reqs[r].res.details =
            <<<<"adminSecretCode", ": ", "Invalid admin secret code">>>>

\* C15: no two persisted users have the same lowercased email, and a step
\* of a register request past its validation, taken when a user with the
\* request's lowercased email is persisted, replies 409 and creates no user.
C15_UniqueEmail ==
  /\ [](\A u, v \in DOMAIN users :
          (u # v /\ users[u].exists /\ users[v].exists)
            => LowerCase(users[u].email) # LowerCase(users[v].email))
  /\ [][\A r \in ReqIds :
          (/\ Stepped(r)
           /\ reqs[r].op = "register"
           /\ reqs[r].pc \in {"find", "create"}
           /\ \E u \in DOMAIN users :
                /\ users[u].exists
                /\ LowerCase(users[u].email) = LowerCase(reqs[r].regBody.email.v))
            => (/\ reqs'[r].pc = "done"
                /\ reqs'[r].res.code = 409
                /\ users' = users)]_vars

\* two registrations of one email in two letter cases both passed the
\* lookup; the second insert was refused by the unique index
C15_Witness ==
  \E r, q \in ReqIds :
    /\ Done(r, "register", 409)
    /\ reqs[r].res.error = <<"Duplicate entry">>
    /\ Done(q, "register", 201)
    /\ reqs[q].res.data[1].email = EmailC

----------------------------------------------------------------------------
(* Properties of the validation *)

\* C16: the validators return a result and never throw, whatever the types
\* of the values of the body: no request is answered with the 500 of an
\* error that escaped a handler.
C16_ValidatorsNeverThrow ==
  \A r \in ReqIds : reqs[r].pc = "done" => reqs[r].res.code # 500

\* a registration that passes the validation
ValidReg == RegBody(Str(JohnDoe), Str(EmailD), Str(Secret), Str(UserRole), UndefStr)

\* registrations of the declared types: each field valid or not
RegisterInputs ==
  {RegBody(n, e, p, ro, c) :
     n \in {Str(JohnDoe), UndefStr},
     e \in {Str(EmailD), Str(<<"a", "@", "b">>)},
     p \in {Str(Secret), Str(<<"a", "b", "c">>)},
     ro \in {Str(UserRole), Str(AdminRole), Str(<<"r", "o", "o", "t">>), UndefStr},
     c \in {UndefStr, Str(ADMIN_SECRET_CODE), Str(<<"6", "5", "4", "3", "2", "1">>)}}

RegisterFields ==
  {<<"name">>, <<"email">>, <<"password">>, <<"role">>, <<"adminSecretCode">>}

\* the valid registration with the value d has for one field (the rule on
\* the admin secret code reads the role as well)
OnlyRegField(d, f) ==
  CASE f = <<"name">> -> [ValidReg EXCEPT !.name = d.name]
    [] f = <<"email">> -> [ValidReg EXCEPT !.email = d.email]
    [] f = <<"password">> -> [ValidReg EXCEPT !.password = d.password]
    [] f = <<"role">> -> [ValidReg EXCEPT !.role = d.role]
    [] OTHER -> [ValidReg EXCEPT !.role = d.role, !.adminSecretCode = d.adminSecretCode]

ValidLine == Line("m1", "Margherita Pizza", Num(12990), Num(2000))

\* lines of the declared types: valid, without an id, with three invalid
\* fields, with a missing price and a quantity of 0
LineInputs ==
  {ValidLine,
   Line(Null, "Margherita Pizza", Num(12990), Num(2000)),
   Line("m1", Null, Num(-1000), Num(1500)),
   Line("m1", "Cola", UndefNum, Num(0))}

\* delivery details of the declared types, and none
DetailInputs ==
  {[t |-> "object", name |-> n, address |-> a, phone |-> p] :
     n \in {Str(JohnDoe), UndefStr, Str(<<"J">>)},
     a \in {Str(MainStreet), Str(<<"1", " ", "M", "a", "i", "n">>)},
     p \in {Str(PhoneNumber), UndefStr, Str(<<"a", "b", "c">>)}}
  \cup {NoBody.deliveryDetails}

\* order bodies of the declared types: no items, none in the array, one line
\* or two
OrderInputs ==
  {[items |-> i, deliveryDetails |-> d] :
     i \in {NoBody.items, [t |-> "array", v |-> << >>]}
          \cup {[t |-> "array", v |-> <<a>>] : a \in LineInputs}
          \cup {[t |-> "array", v |-> <<a, b>>] : a, b \in LineInputs},
     d \in DetailInputs}

ItemFieldNames == {"menuItemId", "name", "price", "quantity"}
ItemField(index, f) == <<"items[", ToString(index), "].", f>>

DeliveryFieldNames == {"name", "address", "phone"}
DeliveryField(f) ==
  CASE f = "name" -> <<"deliveryDetails.name">>
    [] f = "address" -> <<"deliveryDetails.address">>
    [] OTHER -> <<"deliveryDetails.phone">>

\* the valid line with the value the line has for one field
OnlyLineField(line, f) ==
  CASE f = "menuItemId" -> [ValidLine EXCEPT !.menuItemId = line.menuItemId]
    [] f = "name" -> [ValidLine EXCEPT !.name = line.name]
    [] f = "price" -> [ValidLine EXCEPT !.price = line.price]
    [] OTHER -> [ValidLine EXCEPT !.quantity = line.quantity]

OnlyDeliveryField(d, f) ==
  CASE f = "name" -> [ValidDetails EXCEPT !.name = d.name]
    [] f = "address" -> [ValidDetails EXCEPT !.address = d.address]
    [] OTHER -> [ValidDetails EXCEPT !.phone = d.phone]

Messages(errors) == [i \in 1..Len(errors) |-> errors[i].message]

\* the fields a validation of the order may report
OrderFields(d) ==
  {<<"items">>, <<"deliveryDetails">>}
  \cup {DeliveryField(f) : f \in DeliveryFieldNames}
  \cup {ItemField(i - 1, f) : i \in 1..Len(d.items.v), f \in ItemFieldNames}

RegisterNotFailFast ==
  \A d \in RegisterInputs :
    LET v == validateRegisterInput(d, ADMIN_SECRET_CODE) IN
    /\ ~v.threw
    /\ v.valid <=> (v.errors = << >>)
    /\ \A i \in 1..Len(v.errors) : v.errors[i].field \in RegisterFields
    /\ \A f \in RegisterFields :
         /\ Len(ErrorsOn(v.errors, f)) <= 1
         /\ ErrorsOn(v.errors, f)
              = ErrorsOn(validateRegisterInput(OnlyRegField(d, f), ADMIN_SECRET_CODE).errors, f)

OrderNotFailFast ==
  \A d \in OrderInputs :
    LET v == validateOrderInput(d) IN
    /\ ~v.threw
    /\ v.valid <=> (v.errors = << >>)
    /\ \A i \in 1..Len(v.errors) : v.errors[i].field \in OrderFields(d)
    /\ \A f \in OrderFields(d) : Len(ErrorsOn(v.errors, f)) <= 1
    /\ \A i \in 1..Len(d.items.v), f \in ItemFieldNames :
         Messages(ErrorsOn(v.errors, ItemField(i - 1, f)))
           = Messages(ErrorsOn(
               validateOrderInput([items |-> [t |-> "array",
                                              v |-> <<OnlyLineField(d.items.v[i], f)>>],
                                   deliveryDetails |-> ValidDetails]).errors,
               ItemField(0, f)))
    /\ d.deliveryDetails.t = "object" =>
         \A f \in DeliveryFieldNames :
           ErrorsOn(v.errors, DeliveryField(f))
             = ErrorsOn(
                 validateOrderInput([items |-> [t |-> "array", v |-> <<ValidLine>>],
                                     deliveryDetails |->
                                       OnlyDeliveryField(d.deliveryDetails, f)]).errors,
                 DeliveryField(f))

\* C17: validation is not fail-fast.  For every registration and every
\* order of the declared types, the validator returns; the errors on a
\* field are at most one and are those the field's value gets in an
\* otherwise valid input (the rule on the admin secret code reads the role);
\* no error is on another field; valid is true exactly when there is no
\* error.  A refused registration is answered with the errors of all its
\* invalid fields.
C17_NotFailFast ==
  /\ [](RegisterNotFailFast /\ OrderNotFailFast)
  /\ [](\A r \in ReqIds :
          Done(r, "register", 400) =>
            /\ Len(reqs[r].res.details) >= 1
            /\ \A i, j \in 1..Len(reqs[r].res.details) :
                 i # j => reqs[r].res.details[i][1] # reqs[r].res.details[j][1])

\* a registration with four invalid fields was answered with four errors
C17_Witness ==
  \E r \in ReqIds :
    /\ Done(r, "register", 400)
    /\ Len(reqs[r].res.details) = 4
    /\ {reqs[r].res.details[i][1] : i \in 1..4} = {"name", "email", "password", "role"}

\* a text of n times the character c
Repeat(c, n) == [i \in 1..n |-> c]

\* lines for the bounds of the price and of the quantity
BoundLines ==
  LineInputs
  \cup {Line("m1", "Cola", Num(0), Num(1 * NumScale)),
        Line("m1", "Cola", Num(10), Num(NumScale \div 2)),
        Line("", "Cola", Num(1000), Num(-1 * NumScale)),
        Line("m1", "", Num(1000), UndefNum)}

\* delivery details at and beyond the bounds of each field
BoundDetails ==
  {[t |-> "object", name |-> Str(n), address |-> Str(a), phone |-> Str(p)] :
     n \in {JohnDoe, <<" ", "J", " ">>, <<" ", "J", "o">>, << >>,
            Repeat("x", 50) \o <<" ">>, Repeat("x", 51)},
     a \in {MainStreet, Repeat("y", 9) \o <<" ">>, Repeat("y", 200), Repeat("y", 201)},
     p \in {PhoneNumber, BlankPhone, <<" ">> \o PhoneNumber \o <<" ">>,
            <<"(", "0", "1", ")", " ", "2", "3", "-", "4", "5">>,
            Repeat("1", 9), Repeat("1", 20), Repeat("1", 21),
            Repeat("1", 9) \o <<"a">>, << >>}}
  \cup DetailInputs

BoundInputs ==
  {[items |-> i, deliveryDetails |-> d] :
     i \in {NoBody.items, [t |-> "array", v |-> << >>]}
          \cup {[t |-> "array", v |-> <<a>>] : a \in BoundLines}
          \cup {[t |-> "array", v |-> <<ValidLine, a>>] : a \in BoundLines},
     d \in BoundDetails}

\* the line has the field, of the declared kind
LineFieldValid(line, f) ==
  CASE f = "menuItemId" -> line.menuItemId \notin {Null, ""}
    [] f = "name" -> line.name \notin {Null, ""}
    [] f = "price" -> line.price.t = "number" /\ line.price.v >= 0
    [] OTHER -> /\ line.quantity.t = "number"
                /\ line.quantity.v >= NumScale
                /\ line.quantity.v % NumScale = 0

PhoneChars == Digits \cup {" ", "-", "(", ")", "+"}

\* the items and the delivery details as the claim describes the valid ones
DescribedValid(d) ==
  /\ d.items.t = "array"
  /\ Len(d.items.v) > 0
  /\ \A i \in 1..Len(d.items.v), f \in ItemFieldNames : LineFieldValid(d.items.v[i], f)
  /\ d.deliveryDetails.t = "object"
  /\ d.deliveryDetails.name.t = "string"
  /\ Len(trim(d.deliveryDetails.name.v)) \in 2..50
  /\ d.deliveryDetails.address.t = "string"
  /\ Len(trim(d.deliveryDetails.address.v)) \in 10..200
  /\ d.deliveryDetails.phone.t = "string"
  /\ Len(d.deliveryDetails.phone.v) \in 10..20
  /\ \A k \in 1..Len(d.deliveryDetails.phone.v) : d.deliveryDetails.phone.v[k] \in PhoneChars

\* each invalid field of a line is reported under items[i].<field>
ItemErrorsIndexed(d) ==
  d.items.t = "array" =>
    \A i \in 1..Len(d.items.v), f \in ItemFieldNames :
      LineFieldValid(d.items.v[i], f)
        <=> ErrorsOn(validateOrderInput(d).errors, ItemField(i - 1, f)) = << >>

\* the validation of every input agrees with the description
ValidAsDescribed ==
  \A d \in BoundInputs :
    /\ validateOrderInput(d).valid <=> DescribedValid(d)
    /\ ItemErrorsIndexed(d)

\* the validation of every input agrees with the description, the phone
\* being moreover not blank
ValidAsDescribedNonBlank ==
  \A d \in BoundInputs :
    /\ validateOrderInput(d).valid
         <=> (DescribedValid(d) /\ trim(d.deliveryDetails.phone.v) # << >>)
    /\ ItemErrorsIndexed(d)

ValidMenuBody ==
  [NoMenuBody EXCEPT !.name = Str(Margherita), !.description = Str(DescriptionText),
                     !.price = Num(12990), !.image = Str(ImageUrl),
                     !.category = Str(Pizza)]

\* prices: 12.99, 12.999, 0, 0.5, 1.005, 12.9, 3, -1, -0.5, a string, null
\* and none
PriceInputs ==
  {Num(12990), Num(12999), Num(0), Num(500), Num(1005), Num(12900), Num(3 * NumScale),
   Num(-1 * NumScale), Num(-500),
   [t |-> "string", v |-> 0], [t |-> "null", v |-> 0], UndefNum}

PriceMessage(p) ==
  IF p.t \in {"undefined", "null"} THEN <<"Price is required">>
  ELSE IF p.t # "number" THEN <<"Price must be a number">>
  ELSE IF p.v < 0 THEN <<"Price cannot be negative">>
  ELSE <<"Price must have at most 2 decimal places">>

\* the verdict of validateMenuItemInput on each price, in an otherwise valid
\* body
PriceRule ==
  /\ \A p \in PriceInputs :
       LET v == validateMenuItemInput([ValidMenuBody EXCEPT !.price = p])
           accepted == p.t = "number" /\ p.v >= 0 /\ (p.v * 100) % NumScale = 0
       IN /\ v.valid <=> accepted
          /\ Messages(v.errors) = IF accepted THEN << >> ELSE <<PriceMessage(p)>>
          /\ \A i \in 1..Len(v.errors) : v.errors[i].field = <<"price">>
  /\ validateMenuItemInput([ValidMenuBody EXCEPT !.price = Num(12990)]).valid
  /\ Messages(validateMenuItemInput([ValidMenuBody EXCEPT !.price = Num(12999)]).errors)
       = <<<<"Price must have at most 2 decimal places">>>>

MenuDocOf(d) ==
  [NoItem EXCEPT !.exists = TRUE, !.used = TRUE, !.name = trim(d.name.v),
                 !.description = trim(d.description.v), !.price = d.price.v,
                 !.image = trim(d.image.v), !.category = d.category.v]

\* menu item bodies: each category of the data model and an unknown one, at
\* a valid price and at one of 3 decimals
MenuInputs ==
  {[ValidMenuBody EXCEPT !.category = Str(c), !.price = p] :
     c \in Range(SchemaCategories) \cup {<<"S", "o", "u", "p">>},
     p \in {Num(12990), Num(12999)}}

\* the validator and the schema give the same verdict on every body of
\* MenuInputs, and both accept each category of the data model
ValidatorMatchesSchema ==
  /\ \A d \in MenuInputs :
       validateMenuItemInput(d).valid <=> MenuSchemaValid(MenuDocOf(d))
  /\ \A c \in Range(SchemaCategories) :
       /\ validateMenuItemInput([ValidMenuBody EXCEPT !.category = Str(c)]).valid
       /\ MenuSchemaValid(MenuDocOf([ValidMenuBody EXCEPT !.category = Str(c)]))

\* the categories that a refusal over the category names as allowed
NamedCategories(detail) ==
  {detail[j] : j \in {k \in 4..Len(detail) : k % 2 = 0}}

\* C20: validateMenuItemInput accepts a menu item exactly when the MenuItem
\* schema accepts it, and each of the 7 categories of the data model is
\* accepted by both; so when createMenuItem refuses an item over its
\* category, the validator and the schema agree and the refusal names the 7
\* categories of the data model as the allowed ones.
C20_ValidatorMatchesSchema ==
  \A r \in ReqIds :
    Done(r, "createMenuItem", 400) =>
      \A i \in DOMAIN reqs[r].res.details :
        reqs[r].res.details[i][3] = "Category must be one of: " =>
          /\ ValidatorMatchesSchema
          /\ Range(SchemaCategories) \subseteq NamedCategories(reqs[r].res.details[i])

----------------------------------------------------------------------------
(* Properties of the error handler *)

\* errors passed to next: of each name the handler knows and of two it does
\* not, ApiErrors of 5 status codes, with and without details, with the code
\* of a duplicate key, another code and none
ErrorInputs ==
  {[name |-> n, statusCode |-> IF n = "ApiError" THEN sc ELSE 0,
    message |-> <<"message">>, details |-> d, code |-> c, field |-> <<"email">>] :
     n \in {"ApiError", "ValidationError", "CastError", "MongoServerError",
            "JsonWebTokenError", "TokenExpiredError", "TypeError", "Error"},
     sc \in {400, 401, 403, 404, 409},
     d \in {<< >>, <<<<"Price cannot be negative">>>>},
     c \in {0, 121, 11000}}

\* the status the taxonomy gives an error
StatusOf(err) ==
  IF err.name = "ApiError" THEN err.statusCode
  ELSE IF err.name \in {"ValidationError", "CastError"} THEN 400
  ELSE IF err.name = "MongoServerError" /\ err.code = 11000 THEN 409
  ELSE IF err.name \in {"JsonWebTokenError", "TokenExpiredError"} THEN 401
  ELSE 500

\* the response to each error of ErrorInputs is an envelope of the status of
\* the taxonomy
UniformEnvelope ==
  \A err \in ErrorInputs :
    LET res == errorHandler(err) IN
    /\ res.code = StatusOf(err)
    /\ Len(res.error) > 0
    /\ res.data = << >>
    /\ err.name = "ApiError" => (res.error = err.message /\ res.details = err.details)

\* C21: every error passed to errorHandler produces a response {success:
\* false, error, details?} whose status is the ApiError's own status code,
\* 400 for a persistence ValidationError or CastError, 409 for a duplicate
\* key error (code 11000), 401 for JsonWebTokenError or TokenExpiredError and
\* 500 for every other error; a request that ends in an error carries such
\* an envelope and no data.
C21_UniformErrorEnvelope ==
  /\ [](UniformEnvelope)
  /\ [](\A r \in ReqIds :
          (reqs[r].pc = "done" /\ reqs[r].res.code >= 400) =>
            /\ Len(reqs[r].res.error) > 0
            /\ reqs[r].res.data = << >>
            /\ reqs[r].res.code \in {400, 409, 500}
            /\ reqs[r].res.code = 500 => reqs[r].res.error = <<"Internal Server Error">>)

\* a registration whose name is not a text made the handler throw, and the
\* error handler replied 500
C21_Witness ==
  \E r \in ReqIds :
    /\ Done(r, "register", 500)
    /\ reqs[r].res = ErrorResponse(500, <<"Internal Server Error">>, << >>)

----------------------------------------------------------------------------
(* Properties of concurrent requests *)

\* C22: under every interleaving of the read-and-check step and the write
\* step of concurrent updateOrderStatus and cancelOrder requests on the same
\* order, once the persisted status is Delivered or Cancelled it never
\* changes again.
C22_TerminalStatusIsFinal ==
  [][\A o \in 1..Len(orders) :
       orders[o].status \in {"Delivered", "Cancelled"}
         => orders'[o].status = orders[o].status]_vars

\* the line of an order agrees with the catalog: its item exists, is
\* available and has the line's name and price
LineMatchesCatalog(line, catalog) ==
  /\ catalog[line.menuItemId].exists
  /\ catalog[line.menuItemId].available
  /\ catalog[line.menuItemId].price = line.price
  /\ catalog[line.menuItemId].name = line.name

\* C23: under every interleaving of createOrder with admin updateMenuItem and
\* deleteMenuItem, each line of a persisted order refers to a menu item that,
\* at the moment the order was persisted, existed, was available and had the
\* price and name stored in the order line.
C23_LinesMatchCatalogAtPersist ==
  [][Len(orders') > Len(orders) =>
       LET order == orders'[Len(orders')] IN
       \A i \in 1..Len(order.items) : LineMatchesCatalog(order.items[i], menu)]_vars

----------------------------------------------------------------------------
(* Properties of the placement of an order *)

\* C24: createOrder accepts every validated request in which each menuItemId
\* refers to an existing, available menu item and the total is positive,
\* including a request in which two item lines carry the same menuItemId; the
\* existence check rejects only when some id does not resolve.
C24_ResolvedOrderAccepted ==
  [][\A r \in ReqIds :
       (At(r, "createOrder", "find") /\ Stepped(r))
         => LET items == reqs[r].body.items.v IN
            /\ (/\ AllResolve(items)
                /\ \A i \in 1..Len(items) : menu[items[i].menuItemId].available
                /\ Round2(CatalogTotal(items)) > 0)
                 => reqs'[r].pc = "create"
            /\ (/\ reqs'[r].pc = "done"
                /\ reqs'[r].res.error = <<"One or more menu items not found">>)
                 => ~AllResolve(items)]_vars

\* C25: every order persisted by createOrder starts with status Order
\* Received and with userId equal to the authenticated requester, whatever
\* status, userId or totalAmount fields the request body carries.
C25_NewOrderOwnedAndReceived ==
  [][\A r \in ReqIds :
       (At(r, "createOrder", "create") /\ Stepped(r) /\ Len(orders') > Len(orders))
         => LET order == orders'[Len(orders')] IN
            /\ order.status = "Order Received"
            /\ order.userId = reqs[r].user.userId
            /\ users[order.userId].exists
            /\ order.totalAmount = Round2(ItemsTotal(order.items))]_vars

\* the order of a body that named another owner, the status Delivered and a
\* total of 0.01 was persisted for its requester, as received, at its price
C25_Witness ==
  \E r \in ReqIds :
    /\ At(r, "createOrder", "populate")
    /\ reqs[r].body.status = "Delivered"
    /\ reqs[r].body.userId = "a1"
    /\ reqs[r].body.totalAmount = Num(10)
    /\ reqs[r].user.userId = "u1"
    /\ orders[reqs[r].id].userId = "u1"
    /\ orders[reqs[r].id].status = "Order Received"
    /\ orders[reqs[r].id].totalAmount = 25980

----------------------------------------------------------------------------
(* Properties of the catalog and the orders *)

MenuOps == {"createMenuItem", "updateMenuItem", "deleteMenuItem"}

\* C26: createMenuItem, updateMenuItem and deleteMenuItem leave every
\* persisted order unchanged: the name, price and quantity of its items, its
\* totalAmount and its status stay as they were, also after a later
\* updateOrderStatus or cancelOrder re-saves the order.
C26_MenuChangesLeaveOrders ==
  /\ [][\A r \in ReqIds :
          (reqs[r].op \in MenuOps /\ Stepped(r)) => orders' = orders]_vars
  /\ [](\A o \in 1..Len(orders) :
          /\ orders[o].items = SeedOrder("u1").items
          /\ orders[o].totalAmount = SeedOrder("u1").totalAmount)
  /\ [][\A o \in 1..Len(orders) :
          orders'[o].status # orders[o].status
            => \E r \in ReqIds : reqs[r].op \in StatusOps /\ reqs[r].pc = "save" /\ Stepped(r)]_vars

\* the price of the ordered item was changed, and the order was then moved
\* to Preparing with its lines and its total as they were
C26_Witness ==
  \E r \in ReqIds :
    /\ Done(r, "updateOrderStatus", 200)
    /\ menu["m1"].exists /\ menu["m1"].price = 9990
    /\ orders[1] = [SeedOrder("u1") EXCEPT !.status = "Preparing"]

\* the ordered item was deleted, and the owner then cancelled the order with
\* its lines and its total as they were
C26_WitnessDeleted ==
  \E r \in ReqIds :
    /\ Done(r, "cancelOrder", 200)
    /\ ~menu["m1"].exists
    /\ orders[1] = [SeedOrder("u1") EXCEPT !.status = "Cancelled"]

----------------------------------------------------------------------------
(* Properties of the client's session *)

\* the browser holds the session of a user: the token issued for the user
\* and the user in localStorage, the user in the AuthContext
LoggedInAs(userId) ==
  /\ localStorage.token = generateToken(userId)
  /\ localStorage.user = JSONstringify(JsObject(userId))
  /\ auth.user = JsObject(userId)
  /\ isAuthenticated

\* C27: after the client's register call resolves against the server's 201
\* reply {success, data: {user, token}}, localStorage holds the token issued
\* by the server and the returned user, the AuthContext user is that user and
\* isAuthenticated is true, exactly as after a successful login.
C27_RegisterLogsIn ==
  (/\ auth.pc = "idle"
   /\ \/ auth.settled.op = "register" /\ auth.settled.status = 201
      \/ auth.settled.op = "login" /\ auth.settled.status = 200)
    => LoggedInAs(auth.settled.userId)

\* C28: after the client's logout call settles, whether the logout API
\* request succeeded or failed, the token and user are removed from
\* localStorage, the AuthContext user is null (isAuthenticated false) and
\* isLoading is false.
C28_LogoutClearsSession ==
  (auth.pc = "idle" /\ auth.settled.op = "logout")
    => /\ localStorage.token = JsNull
       /\ localStorage.user = JsNull
       /\ auth.user = JsNull
       /\ ~isAuthenticated
       /\ ~auth.isLoading

----------------------------------------------------------------------------
(* Properties of the cart *)

\* at most one entry per menu item, each of a quantity of at least 1
WellFormedCart(items) ==
  /\ Cardinality(CartIds(items)) = Len(items)
  /\ \A i \in 1..Len(items) : items[i].quantity >= 1

\* the quantity a cart of one entry per item holds of an item
QuantityIn(items, id) ==
  IF id \in CartIds(items)
  THEN items[CHOOSE i \in 1..Len(items) : items[i].menuItemId = id].quantity
  ELSE 0

\* the sum of the quantities of a cart of one entry per item, item by item
RECURSIVE QuantitySum(_, _)
QuantitySum(items, ids) ==
  IF ids = {} THEN 0
  ELSE LET id == CHOOSE x \in ids : TRUE IN
       QuantityIn(items, id) + QuantitySum(items, ids \ {id})

\* what the functions of the cart make of a cart
CartFunctionsOn(items) ==
  /\ \A id \in MenuIds, quantity \in 1..MaxQuantity :
       LET added == addItem(items, id, quantity) IN
       /\ QuantityIn(added, id) = QuantityIn(items, id) + quantity
       /\ Len(added) = IF id \in CartIds(items) THEN Len(items) ELSE Len(items) + 1
       /\ \A other \in MenuIds \ {id} : QuantityIn(added, other) = QuantityIn(items, other)
  /\ \A id \in MenuIds, quantity \in -1..0 :
       LET updated == updateQuantity(items, id, quantity) IN
       /\ id \notin CartIds(updated)
       /\ updated = removeCartItem(items, id)
       /\ \A other \in MenuIds \ {id} : QuantityIn(updated, other) = QuantityIn(items, other)
  /\ itemCount(items) = QuantitySum(items, MenuIds)

\* C29: after any sequence of addItem (quantity at least 1), removeItem,
\* updateQuantity and clearCart, the cart holds at most one entry per
\* menuItemId and every entry's quantity is at least 1: addItem on an item
\* already in the cart adds to its quantity, updateQuantity with a quantity
\* of 0 or less removes the entry, and itemCount equals the sum of the
\* quantities.
C29_CartWellFormed ==
  /\ WellFormedCart(cart.items)
  /\ WellFormedCart(cart.next.items)
  /\ CartFunctionsOn(cart.items)

\* addItem of one more of the item the cart holds twice: one entry of 3
C29_Witness ==
  /\ cart.called = "addItem"
  /\ cart.pc = "render"
  /\ cart.items = <<[menuItemId |-> "m1", quantity |-> 2]>>
  /\ cart.next.items = <<[menuItemId |-> "m1", quantity |-> 3]>>

\* C30: on mount the CartProvider reads the stored cart before it writes:
\* localStorage is never overwritten with the initial empty cart before the
\* stored cart has been loaded, and once initialized every change of the cart
\* items is eventually written so that the stored cart equals the items in
\* memory.
C30_LoadBeforeSave ==
  /\ [][~cart.isInitialized => localStorage'.cart = localStorage.cart]_vars
  /\ [][(~cart.isInitialized /\ cart'.isInitialized /\ localStorage.cart.t = "json")
          => cart'.items = localStorage.cart.v]_vars
  /\ [](cart.pc = "idle"
          => (cart.isInitialized /\ localStorage.cart = StoredCart(cart.items)))
  /\ (cart.pc \in {"load", "save", "render"})
       ~> (cart.pc = "idle" /\ cart.isInitialized
           /\ localStorage.cart = StoredCart(cart.items))

\* the stored cart of two items was loaded and written back as it was, and
\* the removal of one of them has been written too
C30_Witness ==
  /\ cart.pc = "idle"
  /\ cart.called = "removeItem"
  /\ cart.items = <<[menuItemId |-> "m2", quantity |-> 1]>>
  /\ localStorage.cart = StoredCart(<<[menuItemId |-> "m2", quantity |-> 1]>>)

====
